---- MODULE Spec2Model ----
(***************************************************************************)
(* Module admission, capability tokens, memory regions and the capsule     *)
(* lifecycle of the NON-OS kernel, as state machines translated from the   *)
(* Rust sources under src/kernel.                                          *)
(*                                                                         *)
(* The model is split into independent subsystems.  Every subsystem has    *)
(* its own variables, initial predicate and next-state relation; a         *)
(* specification of one subsystem keeps the variables of the others at     *)
(* their initial value.                                                    *)
(***************************************************************************)
EXTENDS Integers, Sequences, FiniteSets, TLC

\* Option<T>: None is the empty sequence, Some(x) the one-element sequence.
None == <<>>
Some(x) == <<x>>
IsSome(o) == o # <<>>
Unwrap(o) == o[1]

Range(s) == {s[i] : i \in 1..Len(s)}

\* All sequences over S of length at most n.
SeqsUpTo(S, n) == UNION {[1..k -> S] : k \in 0..n}

(***************************************************************************)
(* Bounds of the model.                                                    *)
(***************************************************************************)
\* Longest permission list and allow-list enumerated for a token.
MaxPerms == 2
\* Largest value the second-resolution clock takes.
MaxClock == 1
\* Most fault() calls made on one capsule.
MaxFaultCalls == 4

\* Slots of the VM_REGIONS table (MAX_MODS, 64 in the source, scaled down).
VmTableSlots == 2
\* Physical frames the frame allocator manages.
NumFrames == 2
\* Pages of kernel virtual address space __nonos_alloc_kvm_va hands out.
MaxVaPages == 3
\* Capsules launched in the world the registry is queried in.
MaxQueryCapsules == 1
\* Slots of the MODULE_REGISTRY table (MAX_MODULES, 64 in the source, scaled down).
MAX_MODULES == 2
\* Longest queue of verified modules (MAX_VERIFIED_QUEUE, 32 in the source,
\* scaled down).
MAX_VERIFIED_QUEUE == 1
\* Most rejections the loader counts: as many as its queue holds entries.
MaxRejected == MAX_VERIFIED_QUEUE
\* Most ticks a module or a task is followed for.
MaxTicks == 3

\* The restart bound the design names; the sources define no such constant.
MAX_RESTART_ATTEMPTS == 3

(***************************************************************************)
(* State.                                                                  *)
(***************************************************************************)
VARIABLES
    \* capabilities/mod.rs: a token, the allow-list handed to restrict, its result
    parent, allowed, child,
    \* modules/runtime.rs: the capsule, the monotonic clock (Instant::now),
    \* the number of fault() calls made on the capsule so far, the last method called
    rc, clock, fault_calls, rc_op,
    \* kernel/src/modules/vm.rs: the VM_REGIONS table
    VM_REGIONS,
    \* memory/region.rs: physical frames, page table and virtual range allocator
    \* (mem), the MemoryRegion handles callers hold (regions), the result of the
    \* last call (mem_ret)
    mem, regions, mem_ret,
    \* modules/auth.rs: the trusted signer registry
    TRUSTED_SIGNERS,
    \* modules/mod_loader.rs: the loader's queue of verified modules and its
    \* rejection counter
    MODULE_LOADER,
    \* mod_runner.rs: the registered module instances by name, the instance
    \* counter, every size allocate_region has been asked for, the result of the
    \* last call
    INSTANCES, MODULE_INSTANCE_ID, alloc_log, adm_ret,
    \* modules/registry.rs: the capsule registry; modules/sandbox.rs: the live
    \* SandboxContexts, those shutdown() was called on, the result of the last call
    REGISTRY, contexts, shut_down, cps_ret,
    \* the CapsuleMetadata values a caller of the registry's queries holds
    held,
    \* crypto/vault.rs: whether the vault is initialised; kernel/src/modules/
    \* registry.rs: the module table; the regions register_region recorded;
    \* the result of the last load_module call
    VAULT_READY, MODULE_REGISTRY, REGION_TABLE, load_ret,
    \* memory/paging.rs, memory/virt.rs: the page table entries by page, whether
    \* paging::init has run, the result of the last call
    PAGE_TABLE, paging_ready, pt_ret,
    \* boot/src/capsule.rs, boot/src/zkmeta.rs, kernel/src/modules/manifest.rs: the last parser call, its input and its outcome
    parse_ret,
    \* kernel/src/modules/runtime.rs: the census of running modules, the last call
    MODULES, census_ret,
    \* mod_runner.rs launch_module step by step: the scheduler queue, the instances registered, where the launch is
    SCHED_QUEUE, SCHED_INSTANCES, launch_pc,
    \* modules/mod_loader.rs under concurrent admissions: who holds the MODULE_LOADER mutex, the loader state, where each admission is
    loader_lock, loader_state, admitting,
    \* syscall/capabilities.rs, syscall/mod.rs: the CURRENT_TOKEN static, the token issued to each module, the last call
    CURRENT_TOKEN, module_token, sys_ret,
    \* ui/event.rs: one lane of the event bus, the contexts inside push_isr and pop, and the events seen so far
    QN, producers, consumer, events

capVars == <<parent, allowed, child>>
rtVars == <<rc, clock, fault_calls, rc_op>>
vmVars == <<VM_REGIONS>>
memVars == <<mem, regions, mem_ret>>
admVars == <<TRUSTED_SIGNERS, MODULE_LOADER, INSTANCES, MODULE_INSTANCE_ID, alloc_log, adm_ret>>
cpsVars == <<REGISTRY, contexts, shut_down, cps_ret, held>>
loadVars == <<VAULT_READY, MODULE_REGISTRY, REGION_TABLE, load_ret>>

pagVars == <<PAGE_TABLE, paging_ready, pt_ret>>

parseVars == <<parse_ret>>

censusVars == <<MODULES, census_ret>>

schedVars == <<SCHED_QUEUE, SCHED_INSTANCES, launch_pc>>

lockVars == <<loader_lock, loader_state, admitting>>

sysVars == <<CURRENT_TOKEN, module_token, sys_ret>>

ringVars == <<QN, producers, consumer, events>>

vars == <<capVars, rtVars, vmVars, memVars, admVars, cpsVars, loadVars, pagVars, parseVars, censusVars, schedVars, lockVars, sysVars, ringVars>>

\* What a step of one subsystem leaves alone.
exceptCap == <<rtVars, vmVars, memVars, admVars, cpsVars, loadVars, pagVars, parseVars, censusVars, schedVars, lockVars, sysVars, ringVars>>
exceptRt == <<capVars, vmVars, memVars, admVars, cpsVars, loadVars, pagVars, parseVars, censusVars, schedVars, lockVars, sysVars, ringVars>>
exceptVm == <<capVars, rtVars, memVars, admVars, cpsVars, loadVars, pagVars, parseVars, censusVars, schedVars, lockVars, sysVars, ringVars>>
exceptMem == <<capVars, rtVars, vmVars, admVars, cpsVars, loadVars, pagVars, parseVars, censusVars, schedVars, lockVars, sysVars, ringVars>>
\* Admission and capsule steps allocate from mem.
exceptAdm == <<capVars, rtVars, vmVars, regions, mem_ret, cpsVars, loadVars, pagVars, parseVars, censusVars, schedVars, lockVars, sysVars, ringVars>>
exceptCps == <<capVars, rtVars, vmVars, regions, mem_ret, admVars, loadVars, pagVars, parseVars, censusVars, schedVars, lockVars, sysVars, ringVars>>
exceptLoad == <<capVars, rtVars, vmVars, memVars, admVars, cpsVars, pagVars, parseVars, censusVars, schedVars, lockVars, sysVars, ringVars>>
exceptPag == <<capVars, rtVars, vmVars, memVars, admVars, cpsVars, loadVars, parseVars, censusVars, schedVars, lockVars, sysVars, ringVars>>
exceptParse == <<capVars, rtVars, vmVars, memVars, admVars, cpsVars, loadVars, pagVars, censusVars, schedVars, lockVars, sysVars, ringVars>>
exceptCensus == <<capVars, rtVars, vmVars, memVars, admVars, cpsVars, loadVars, pagVars, parseVars, schedVars, lockVars, sysVars, ringVars>>
exceptSched == <<capVars, rtVars, vmVars, memVars, admVars, cpsVars, loadVars, pagVars, parseVars, censusVars, lockVars, sysVars, ringVars>>
exceptLock == <<capVars, rtVars, vmVars, memVars, admVars, cpsVars, loadVars, pagVars, parseVars, censusVars, schedVars, sysVars, ringVars>>
exceptSys == <<capVars, rtVars, vmVars, memVars, admVars, cpsVars, loadVars, pagVars, parseVars, censusVars, schedVars, lockVars, ringVars>>
exceptRing == <<capVars, rtVars, vmVars, memVars, admVars, cpsVars, loadVars, pagVars, parseVars, censusVars, schedVars, lockVars, sysVars>>

(***************************************************************************)
(* capabilities/mod.rs : capability tokens                                 *)
(***************************************************************************)
Capability ==
    {"CoreExec", "IO", "SecureMem", "CryptoOps", "IPC", "Storage", "Network", "ModuleLoad"}

\* The capabilities that tokens and allow-lists are enumerated over.
CapInputs == {"CoreExec", "IO", "IPC", "Network"}

\* CapabilityToken::new : issued now, no expiry.
TokenNew(owner, caps, now) ==
    [owner_module |-> owner, permissions |-> caps, issued_at |-> now, expires_at |-> None]

\* CapabilityToken::has
has(tok, cap) == cap \in Range(tok.permissions)

\* The permissions of a token as a set (Vec<Capability> read as a set).
permissions(tok) == Range(tok.permissions)

\* A restrict that copies the allow-list instead of filtering the parent's list.
restrict_copies_allowed(tok, allow, now) ==
    [owner_module |-> tok.owner_module,
     permissions  |-> allow,
     issued_at    |-> now,
     expires_at   |-> tok.expires_at]

\* CapabilityToken::restrict : keeps, in order, the parent's entries that the
\* allow-list contains; owner and expiry are copied, issued_at is the current time.
restrict(tok, allow, now) ==
    [owner_module |-> tok.owner_module,
     permissions  |-> SelectSeq(tok.permissions, LAMBDA cap : cap \in Range(allow)),
     issued_at    |-> now,
     expires_at   |-> tok.expires_at]

CapInit ==
    /\ parent \in {[TokenNew("mod", caps, 0) EXCEPT !.expires_at = e] :
                      caps \in SeqsUpTo(CapInputs, MaxPerms), e \in {None, Some(MaxClock)}}
    /\ allowed = <<>>
    /\ child = None

\* token.restrict(allowed) on the current token.
Restrict ==
    \E allow \in SeqsUpTo(CapInputs, MaxPerms), now \in 0..MaxClock :
        /\ child = None
        /\ allowed' = allow
        /\ child' = Some(restrict(parent, allow, now))
        /\ UNCHANGED <<parent, exceptCap>>

\* The restricted copy becomes the token that is attenuated next.
Attenuated ==
    /\ IsSome(child)
    /\ parent' = Unwrap(child)
    /\ child' = None
    /\ allowed' = <<>>
    /\ UNCHANGED exceptCap

CapNext == Restrict \/ Attenuated

CapIdleInit ==
    /\ parent = TokenNew("mod", <<>>, 0)
    /\ allowed = <<>>
    /\ child = None

(***************************************************************************)
(* modules/runtime.rs : the lifecycle of one RuntimeCapsule                *)
(***************************************************************************)
CapsuleState == {"Inactive", "Active", "Suspended", "Faulted", "Terminating", "Restarting"}

FaultPolicy == {"Restart", "Shutdown", "Escalate", "Suspend"}

\* A constructor that leaves the capsule Inactive until it is started.
RuntimeCapsule_new_inactive(name, token, policy, memory_bytes, now) ==
    [name |-> name, token |-> token, policy |-> policy, memory_bytes |-> memory_bytes,
     state |-> "Inactive", last_heartbeat |-> now, launch_time |-> now]

\* RuntimeCapsule::new : a capsule is Active as soon as it is constructed.
RuntimeCapsule_new(name, token, policy, memory_bytes, now) ==
    [name |-> name, token |-> token, policy |-> policy, memory_bytes |-> memory_bytes,
     state |-> "Active", last_heartbeat |-> now, launch_time |-> now]

\* RuntimeCapsule::is_active
is_active(c) == c.state = "Active"

\* RuntimeCapsule::mark_inactive
mark_inactive(c) == [c EXCEPT !.state = "Inactive"]

\* RuntimeCapsule::suspend
suspend(c) == [c EXCEPT !.state = "Suspended"]

\* RuntimeCapsule::terminate
terminate(c) == [c EXCEPT !.state = "Terminating"]

\* A policy resolution that shuts a capsule down where it should suspend it.
resolve_policy_suspend_as_shutdown(c) ==
    CASE c.policy = "Restart"  -> [c EXCEPT !.state = "Restarting"]
      [] c.policy = "Shutdown" -> [c EXCEPT !.state = "Terminating"]
      [] c.policy = "Suspend"  -> [c EXCEPT !.state = "Terminating"]
      [] c.policy = "Escalate" -> c

\* RuntimeCapsule::resolve_policy : Escalate only logs and leaves the state as is.
resolve_policy(c) ==
    CASE c.policy = "Restart"  -> [c EXCEPT !.state = "Restarting"]
      [] c.policy = "Shutdown" -> [c EXCEPT !.state = "Terminating"]
      [] c.policy = "Suspend"  -> suspend(c)
      [] c.policy = "Escalate" -> c

\* RuntimeCapsule::fault : Faulted from whatever state, then the policy is applied.
fault(c) == resolve_policy([c EXCEPT !.state = "Faulted"])

\* RuntimeCapsule::tick : refreshes the heartbeat only.
tick(c, now) == [c EXCEPT !.last_heartbeat = now]

\* RuntimeCapsule::last_seen
last_seen(c, now) == now - c.last_heartbeat

RtInit ==
    /\ clock = 0
    /\ \E policy \in FaultPolicy :
          rc = RuntimeCapsule_new("mod", TokenNew("mod", <<"IO">>, 0), policy, 4096, 0)
    /\ fault_calls = 0
    /\ rc_op = "new"

\* Instant::now() moves on.
TimePasses ==
    /\ clock < MaxClock
    /\ clock' = clock + 1
    /\ UNCHANGED <<rc, fault_calls, rc_op, exceptRt>>

MarkInactive ==
    /\ rc' = mark_inactive(rc)
    /\ rc_op' = "mark_inactive"
    /\ UNCHANGED <<clock, fault_calls, exceptRt>>

Suspend ==
    /\ rc' = suspend(rc)
    /\ rc_op' = "suspend"
    /\ UNCHANGED <<clock, fault_calls, exceptRt>>

Fault ==
    /\ fault_calls < MaxFaultCalls
    /\ rc' = fault(rc)
    /\ fault_calls' = fault_calls + 1
    /\ rc_op' = "fault"
    /\ UNCHANGED <<clock, exceptRt>>

Terminate ==
    /\ rc' = terminate(rc)
    /\ rc_op' = "terminate"
    /\ UNCHANGED <<clock, fault_calls, exceptRt>>

Tick ==
    /\ rc' = tick(rc, clock)
    /\ rc_op' = "tick"
    /\ UNCHANGED <<clock, fault_calls, exceptRt>>

RtNext == TimePasses \/ MarkInactive \/ Suspend \/ Fault \/ Terminate \/ Tick

RtIdleInit ==
    /\ clock = 0
    /\ rc = RuntimeCapsule_new("mod", TokenNew("mod", <<>>, 0), "Restart", 0, 0)
    /\ fault_calls = 0
    /\ rc_op = "new"

(***************************************************************************)
(* kernel/src/modules/vm.rs : per-module virtual ranges                    *)
(***************************************************************************)
PAGE_SIZE == 4096

ModNames == {"a", "b"}

\* Range<u64>::contains
RangeContains(r, a) == r.start <= a /\ a < r.end

RangesOverlap(r1, r2) == r1.start < r2.end /\ r2.start < r1.end

\* The first empty slot of a table, 0 when there is none (iter_mut in order).
FirstFree(tab) ==
    IF \E i \in DOMAIN tab : tab[i] = None
    THEN CHOOSE i \in DOMAIN tab : tab[i] = None /\ \A j \in DOMAIN tab : j < i => tab[j] # None
    ELSE 0

\* assign_region : the first empty slot takes the range as given.
assign_region(tab, name, base, len, enforce_nx) ==
    LET i == FirstFree(tab) IN
    IF i = 0 THEN [ok |-> FALSE, tab |-> tab]
    ELSE [ok  |-> TRUE,
          tab |-> [tab EXCEPT ![i] = Some([name |-> name,
                                           virt_range |-> [start |-> base, end |-> base + len],
                                           active |-> TRUE, enforce_nx |-> enforce_nx,
                                           dirty |-> FALSE, fault_count |-> 0])]]

\* clear_region : every entry of the module is deactivated; its slot stays taken.
clear_region(tab, module) ==
    [i \in DOMAIN tab |->
        IF tab[i] # None /\ Unwrap(tab[i]).name = module
        THEN Some([Unwrap(tab[i]) EXCEPT !.active = FALSE, !.dirty = TRUE])
        ELSE tab[i]]

VmInit == VM_REGIONS = [i \in 1..VmTableSlots |-> None]

AssignRegion ==
    \E name \in ModNames, base \in {0, PAGE_SIZE}, len \in {PAGE_SIZE, 2 * PAGE_SIZE},
       enforce_nx \in BOOLEAN :
        /\ VM_REGIONS' = assign_region(VM_REGIONS, name, base, len, enforce_nx).tab
        /\ UNCHANGED exceptVm

ClearRegion ==
    \E name \in ModNames :
        /\ VM_REGIONS' = clear_region(VM_REGIONS, name)
        /\ UNCHANGED exceptVm

VmNext == AssignRegion \/ ClearRegion

(***************************************************************************)
(* memory/region.rs : capsule memory regions                               *)
(***************************************************************************)
Frames == 0..(NumFrames - 1)
VaPages == 1..MaxVaPages
Unmapped == -1

\* (size + 4095) / 4096
PagesFor(size) == (size + 4095) \div PAGE_SIZE

\* A frame's content: nonzero bytes at offsets the owning region's size covers
\* (in), nonzero bytes of the page beyond the region's size (out).
ZeroFrame == [in |-> FALSE, out |-> FALSE]
IsZero(d) == ~d.in /\ ~d.out

\* phys::alloc_contig : the first frames of the runs of `pages` free frames.
ContigFits(m, pages) ==
    IF pages = 0 THEN {}
    ELSE {f \in Frames : \A i \in 0..(pages - 1) : (f + i) \in m.free}

\* phys::alloc_contig(pages, 1, AllocFlags::ZERO), taking the run at f.
alloc_contig(m, f, pages) ==
    LET run == f..(f + pages - 1) IN
    [m EXCEPT !.free = @ \ run,
              !.data = [g \in Frames |-> IF g \in run THEN ZeroFrame ELSE @[g]]]

\* phys::free / phys::free_contig : the frames are free again, as they are; a
\* frame released while it is free already is noted in double_freed.
free_contig(m, f, pages) ==
    LET run == (f..(f + pages - 1)) \cap Frames IN
    [m EXCEPT !.free = @ \cup run,
              !.double_freed = @ \cup (run \cap m.free)]

\* __nonos_alloc_kvm_va : the address of a fresh run of pages, 0 when exhausted.
alloc_kvm_va(m, pages) ==
    IF m.next_va + pages - 1 > MaxVaPages THEN 0 ELSE m.next_va * PAGE_SIZE

MemoryRegion_new(base, size, phys, flags) ==
    [base |-> base, size |-> size, phys_base |-> phys, flags |-> flags]

\* The frames a region's pages are mapped to.
RegionFrames(m, r) ==
    {m.pt[(r.base \div PAGE_SIZE) + i] : i \in 0..(PagesFor(r.size) - 1)} \ {Unmapped}

\* The pages of a region that are mapped.
RegionMapped(m, r) ==
    \A i \in 0..(PagesFor(r.size) - 1) : m.pt[(r.base \div PAGE_SIZE) + i] # Unmapped

\* allocate_region(size), with the run alloc_contig picks at frame f and the page
\* mappings succeeding for the first k pages: frames, then a virtual range, then
\* one map4k_at per page; a failing map4k_at returns None at once.
allocate_region(m, size, f, k) ==
    LET pages == PagesFor(size)
        m1 == alloc_contig(m, f, pages)
        va == alloc_kvm_va(m1, pages)
        m2 == [m1 EXCEPT !.next_va = @ + pages]
        vp == va \div PAGE_SIZE
        m3 == [m2 EXCEPT !.pt = [v \in VaPages |->
                                   IF v >= vp /\ v < vp + k THEN f + (v - vp) ELSE @[v]]]
    IN  IF f \notin ContigFits(m, pages) THEN [mem |-> m, region |-> None]
        ELSE IF va = 0 THEN [mem |-> free_contig(m1, f, pages), region |-> None]
        ELSE IF k < pages THEN [mem |-> m3, region |-> None]
        ELSE [mem |-> m3,
              region |-> Some(MemoryRegion_new(va, size, f * PAGE_SIZE,
                                               {"READABLE", "WRITABLE", "ZEROED"}))]

\* A zeroize that also gives the frames back to the physical pool.
zeroize_and_release(m, r) ==
    [m EXCEPT !.free = @ \cup RegionFrames(m, r)]

\* MemoryRegion::zeroize : write_bytes(base, 0, size) clears the first `size`
\* bytes; the rest of the last page is not written.
zeroize(m, r) ==
    [m EXCEPT !.data = [g \in Frames |->
                          IF g \in RegionFrames(m, r) THEN [@[g] EXCEPT !.in = FALSE] ELSE @[g]]]

\* A free_region that scrubs the frames before it releases them.
free_region_scrubbed(m, r) ==
    LET pages == PagesFor(r.size)
        vp == r.base \div PAGE_SIZE
        fs == RegionFrames(m, r)
    IN  [m EXCEPT !.pt = [v \in VaPages |-> IF v >= vp /\ v < vp + pages THEN Unmapped ELSE @[v]],
                  !.free = @ \cup fs \cup ((((r.phys_base \div PAGE_SIZE))..((r.phys_base \div PAGE_SIZE) + pages - 1)) \cap Frames),
                  !.data = [g \in Frames |-> IF g \in fs THEN ZeroFrame ELSE @[g]]]

\* free_region : every page is unmapped (unmap4k frees the frame it was mapped
\* to), then free_contig frees the run again.  Nothing is written to the frames.
free_region(m, r) ==
    LET pages == PagesFor(r.size)
        vp == r.base \div PAGE_SIZE
        m1 == [m EXCEPT !.pt = [v \in VaPages |->
                                  IF v >= vp /\ v < vp + pages THEN Unmapped ELSE @[v]],
                        !.free = @ \cup RegionFrames(m, r),
                        !.double_freed = @ \cup (RegionFrames(m, r) \cap m.free)]
    IN  free_contig(m1, r.phys_base \div PAGE_SIZE, pages)

\* The capsule stores into its region: within the region's size, or (whole) up
\* to the end of the last mapped page.
store(m, r, whole) ==
    [m EXCEPT !.data = [g \in Frames |->
        IF g \in RegionFrames(m, r)
        THEN [in  |-> TRUE,
              out |-> @[g].out \/ (whole /\ r.size % PAGE_SIZE # 0
                                         /\ g = m.pt[(r.base \div PAGE_SIZE) + PagesFor(r.size) - 1])]
        ELSE @[g]]]

MemStart ==
    [free |-> Frames, data |-> [g \in Frames |-> ZeroFrame],
     pt |-> [v \in VaPages |-> Unmapped], next_va |-> 1, double_freed |-> {}]

MemInit ==
    /\ mem = MemStart
    /\ regions = {}
    /\ mem_ret = "none"

SizeInputs == {1, PAGE_SIZE, PAGE_SIZE + 1}

AllocateRegion ==
    \E size \in SizeInputs, f \in Frames, k \in 0..PagesFor(PAGE_SIZE + 1) :
        LET pages == PagesFor(size)
            r == allocate_region(mem, size, f, k) IN
        /\ f \in ContigFits(mem, pages) \/ (ContigFits(mem, pages) = {} /\ f = 0)
        /\ k <= pages
        /\ mem' = r.mem
        /\ regions' = IF IsSome(r.region) THEN regions \cup {Unwrap(r.region)} ELSE regions
        /\ mem_ret' = IF IsSome(r.region) THEN "Some" ELSE "None"
        /\ UNCHANGED exceptMem

Store ==
    \E r \in regions, whole \in BOOLEAN :
        /\ mem' = store(mem, r, whole)
        /\ mem_ret' = "store"
        /\ UNCHANGED <<regions, exceptMem>>

Zeroize ==
    \E r \in regions :
        /\ mem' = zeroize(mem, r)
        /\ mem_ret' = "zeroize"
        /\ UNCHANGED <<regions, exceptMem>>

FreeRegion ==
    \E r \in regions :
        /\ mem' = free_region(mem, r)
        /\ mem_ret' = "free_region"
        /\ UNCHANGED <<regions, exceptMem>>

MemNext == AllocateRegion \/ Store \/ Zeroize \/ FreeRegion

(***************************************************************************)
(* modules/manifest.rs, kernel/src/modules/manifest.rs : manifests         *)
(***************************************************************************)
MANIFEST_MAGIC == "MODX"
MANIFEST_VERSION == 1
\* Capability::MAX_DECLARED is not defined in the sources; every capability once.
MAX_DECLARED == 8

\* ModuleManifest::is_valid : the header check.
is_valid(m) ==
    /\ m.magic = MANIFEST_MAGIC
    /\ m.format_version = MANIFEST_VERSION
    /\ Len(m.required_caps) <= MAX_DECLARED

\* The most memory a manifest may ask for (validate_constraints).
MEMORY_POLICY_MAX == 64 * 1024 * 1024

\* ModuleManifest::validate_constraints (memory_bytes is memory_required there).
\* No admission path of the sources calls it.
validate_constraints(m, now) ==
    IF m.memory_required = 0 \/ m.memory_required > MEMORY_POLICY_MAX
    THEN "Manifest requested memory outside policy bounds"
    ELSE IF m.name_len > 32 THEN "Module name too long"
    ELSE IF IsSome(m.expiry_seconds) /\ now > m.timestamp + Unwrap(m.expiry_seconds)
    THEN "Manifest expired"
    ELSE "Ok"

\* A manifest signed over its own hash by the root key.
Manifest(name, caps, memory, policy) ==
    [name |-> name, name_len |-> 1, magic |-> MANIFEST_MAGIC,
     format_version |-> MANIFEST_VERSION, hash |-> "h1",
     signature |-> Some([by |-> "root", over |-> "h1"]),
     signer_id |-> Some("root"), zk_proof |-> None,
     required_caps |-> caps, memory_required |-> memory, fault_policy |-> policy,
     timestamp |-> 0, expiry_seconds |-> None]

GoodManifest == Manifest("a", <<"IO">>, PAGE_SIZE, None)
ForbiddenManifest == Manifest("a", <<"CoreExec", "Network">>, PAGE_SIZE, None)
OversizeManifest == Manifest("a", <<"IO">>, 128 * 1024 * 1024, None)

\* The manifests submitted to the loader: a good one for each of two modules,
\* and a good one spoiled in one respect at a time.
ManifestInputs ==
    { GoodManifest,
      Manifest("b", <<"IO">>, PAGE_SIZE, Some("Suspend")),
      ForbiddenManifest,
      OversizeManifest,
      [GoodManifest EXCEPT !.signature = Some([by |-> "root", over |-> "h0"])],
      [GoodManifest EXCEPT !.signer_id = Some("eve"),
                           !.signature = Some([by |-> "eve", over |-> "h1"])],
      [GoodManifest EXCEPT !.magic = "XXXX"],
      [GoodManifest EXCEPT !.signer_id = None,
                           !.zk_proof = Some([valid |-> TRUE, id |-> Some("root")])] }

(***************************************************************************)
(* modules/auth.rs : manifest authentication                               *)
(***************************************************************************)
\* crypto::vault::get_root_pubkeys
get_root_pubkeys == {"root"}

\* crypto::vault::verify_zk_attestation : the identity a valid proof attests.
verify_zk_attestation(proof) == IF proof.valid THEN Some(proof.id) ELSE None

\* crypto::vault::verify_signature(hash, sig, key)
verify_signature(hash, sig, key) == sig.by = key /\ sig.over = hash

\* crypto::vault::verify_signature(hash, sig), against the keys the vault holds.
vault_verify_signature(hash, sig) == sig.over = hash /\ sig.by \in get_root_pubkeys

Verified(token) == [kind |-> "Verified", token |-> token]
Rejected(reason) == [kind |-> "Rejected", reason |-> reason]

\* init_trusted_signers
init_trusted_signers == Some(get_root_pubkeys)

\* approve_signer : inserts only into a registry that is already loaded.
approve_signer(signers, pubkey) ==
    IF IsSome(signers) THEN Some(Unwrap(signers) \cup {pubkey}) ELSE signers

\* authenticate_manifest : signer identity, trusted registry, signature; the
\* token carries the manifest's required capabilities as they are.
authenticate_manifest(signers, m) ==
    LET sig == Unwrap(m.signature)
        attested == verify_zk_attestation(Unwrap(m.zk_proof))
        signer_id == IF IsSome(m.zk_proof) THEN Unwrap(attested) ELSE m.signer_id
        signer_key == Unwrap(signer_id)
        trusted == IF IsSome(signers) THEN signer_key \in Unwrap(signers) ELSE FALSE
    IN  IF IsSome(m.zk_proof) /\ ~IsSome(attested)
        THEN Rejected("zkProof identity invalid")
        ELSE IF ~IsSome(signer_id) THEN Rejected("No valid signer identity")
        ELSE IF ~trusted THEN Rejected("Signer not in trusted DAO registry")
        ELSE IF ~verify_signature(m.hash, sig, signer_key) THEN Rejected("Signature mismatch")
        ELSE Verified([owner_module |-> m.name, permissions |-> m.required_caps])

(***************************************************************************)
(* mod_runner.rs : launching module instances                              *)
(***************************************************************************)
\* The lowest of a nonempty set of frames.
Lowest(S) == CHOOSE f \in S : \A g \in S : f <= g

\* The run alloc_contig picks and the number of pages map4k_at maps before it
\* fails, for an allocate_region(size) call made in memory state m.  Frames are
\* interchangeable to a module launch, so the lowest run that fits stands for
\* all of them.
AllocChoices(m, size) ==
    IF ContigFits(m, PagesFor(size)) = {} THEN {<<0, 0>>}
    ELSE {<<Lowest(ContigFits(m, PagesFor(size))), k>> : k \in 0..PagesFor(size)}

\* What a launch can meet: the allocation's choices and, when the region is
\* allocated, whether bind_module_ipc and then spawn_task succeed.
LaunchChoices(m, size) ==
    {x \in {<<c[1], c[2], ipc_ok, task_ok>> :
                c \in AllocChoices(m, size), ipc_ok \in BOOLEAN, task_ok \in BOOLEAN} :
        /\ (ContigFits(m, PagesFor(size)) = {} \/ x[2] < PagesFor(size)) => (x[3] /\ x[4])
        /\ ~x[3] => x[4]}

\* registry::is_registered
is_registered(instances, name) == name \in DOMAIN instances

\* registry::register_module_instance
register_module_instance(instances, name, instance) == (name :> instance) @@ instances

\* registry::unregister_module(name)
unregister_instance(instances, name) ==
    [n \in (DOMAIN instances) \ {name} |-> instances[n]]

Ok(op) == [op |-> op, ok |-> TRUE, reason |-> "Ok"]
Err(op, reason) == [op |-> op, ok |-> FALSE, reason |-> reason]

\* The state launch_module works on.
World == [mem |-> mem, instances |-> INSTANCES, next_id |-> MODULE_INSTANCE_ID,
          log |-> alloc_log, ret |-> adm_ret]

\* SandboxContext::new(name, region, token) as mod_runner.rs calls it: the
\* context wraps the region it is handed.
SandboxContext_wrap(name, region, token) ==
    [name |-> name, memory |-> region, token |-> token]

\* launch_module(manifest, token) : header, name, signature (when there is
\* one), allocate_region(memory_required), sandbox, IPC binding, task, then the
\* instance is registered.  Every step after the allocation that fails returns
\* with the region still allocated.
launch_module(w, manifest, token, f, k, ipc_ok, task_ok) ==
    IF ~is_valid(manifest)
    THEN [w EXCEPT !.ret = Err("launch_module", "Manifest verification failed")]
    ELSE IF is_registered(w.instances, manifest.name)
    THEN [w EXCEPT !.ret = Err("launch_module", "Module already loaded")]
    ELSE IF IsSome(manifest.signature)
            /\ ~vault_verify_signature(manifest.hash, Unwrap(manifest.signature))
    THEN [w EXCEPT !.ret = Err("launch_module", "Signature verification failed")]
    ELSE
      LET a == allocate_region(w.mem, manifest.memory_required, f, k)
          w1 == [w EXCEPT !.mem = a.mem, !.log = @ \cup {manifest.memory_required}]
      IN  IF ~IsSome(a.region)
          THEN [w1 EXCEPT !.ret = Err("launch_module", "Memory allocation failure")]
          ELSE IF ~ipc_ok
          THEN [w1 EXCEPT !.ret = Err("launch_module", "bind_module_ipc failed")]
          ELSE IF ~task_ok
          THEN [w1 EXCEPT !.ret = Err("launch_module", "spawn_task failed")]
          ELSE
            LET instance == [ident |-> w.next_id, manifest |-> manifest,
                             memory |-> Unwrap(a.region),
                             sandbox |-> SandboxContext_wrap(manifest.name,
                                                             Unwrap(a.region), token),
                             token |-> token]
            IN  [w1 EXCEPT !.instances =
                               register_module_instance(@, manifest.name, instance),
                           !.next_id = @ + 1,
                           !.ret = Ok("launch_module")]

\* shutdown_module(name) : only the registration goes; the task, the memory and
\* the sandbox stay.
shutdown_module(w, name) ==
    IF ~is_registered(w.instances, name)
    THEN [w EXCEPT !.ret = Err("shutdown_module", "Module not found")]
    ELSE [w EXCEPT !.instances = unregister_instance(@, name),
                   !.ret = Ok("shutdown_module")]

\* restart_module : shutdown_module(..).ok(), then launch_module.
restart_module(w, manifest, token, f, k, ipc_ok, task_ok) ==
    launch_module(shutdown_module(w, manifest.name), manifest, token, f, k, ipc_ok, task_ok)

\* The world after a call.
Becomes(w) ==
    /\ mem' = w.mem
    /\ INSTANCES' = w.instances
    /\ MODULE_INSTANCE_ID' = w.next_id
    /\ alloc_log' = w.log
    /\ adm_ret' = w.ret

\* The token authenticate_manifest issues for a manifest.
TokenFor(m) == [owner_module |-> m.name, permissions |-> m.required_caps]

AdmInit ==
    /\ TRUSTED_SIGNERS = None
    /\ MODULE_LOADER = [queue |-> <<>>, rejected_count |-> 0]
    /\ INSTANCES = <<>>
    /\ MODULE_INSTANCE_ID = 1
    /\ alloc_log = {}
    /\ adm_ret = Ok("boot")

InitTrustedSigners ==
    /\ TRUSTED_SIGNERS' = init_trusted_signers
    /\ adm_ret' = Ok("init_trusted_signers")
    /\ UNCHANGED <<MODULE_LOADER, INSTANCES, MODULE_INSTANCE_ID, alloc_log, mem, exceptAdm>>

ApproveSigner ==
    \E pubkey \in {"eve"} :
        /\ TRUSTED_SIGNERS' = approve_signer(TRUSTED_SIGNERS, pubkey)
        /\ adm_ret' = Ok("approve_signer")
        /\ UNCHANGED <<MODULE_LOADER, INSTANCES, MODULE_INSTANCE_ID, alloc_log, mem, exceptAdm>>

\* verify_and_queue(manifest)
VerifyAndQueue ==
    \E manifest \in ManifestInputs :
        LET auth == authenticate_manifest(TRUSTED_SIGNERS, manifest) IN
        /\ IF Len(MODULE_LOADER.queue) >= MAX_VERIFIED_QUEUE
           THEN /\ adm_ret' = Err("verify_and_queue", "Queue full")
                /\ UNCHANGED MODULE_LOADER
           ELSE IF auth.kind = "Verified"
           THEN /\ MODULE_LOADER' = [MODULE_LOADER EXCEPT
                                       !.queue = Append(@, [manifest |-> manifest,
                                                            token |-> auth.token])]
                /\ adm_ret' = Ok("verify_and_queue")
           ELSE /\ MODULE_LOADER.rejected_count < MaxRejected
                /\ MODULE_LOADER' = [MODULE_LOADER EXCEPT !.rejected_count = @ + 1]
                /\ adm_ret' = Err("verify_and_queue", auth.reason)
        /\ UNCHANGED <<TRUSTED_SIGNERS, INSTANCES, MODULE_INSTANCE_ID, alloc_log, mem, exceptAdm>>

\* admit_next_module : the oldest entry leaves the queue, is launched and, when
\* the launch succeeded, registered once more.
AdmitNextModule ==
    IF MODULE_LOADER.queue = <<>>
    THEN /\ adm_ret' = Err("admit_next_module", "No verified modules pending")
         /\ UNCHANGED <<TRUSTED_SIGNERS, MODULE_LOADER, INSTANCES, MODULE_INSTANCE_ID,
                        alloc_log, mem, exceptAdm>>
    ELSE LET e == Head(MODULE_LOADER.queue) IN
         \E c \in LaunchChoices(mem, e.manifest.memory_required) :
            LET w == launch_module(World, e.manifest, e.token, c[1], c[2], c[3], c[4])
                name == e.manifest.name
            IN  /\ MODULE_LOADER' = [MODULE_LOADER EXCEPT !.queue = Tail(@)]
                /\ Becomes(IF w.ret.ok
                           THEN [w EXCEPT !.instances =
                                    register_module_instance(@, name, @[name]),
                                          !.ret = Ok("admit_next_module")]
                           ELSE [w EXCEPT !.ret = Err("admit_next_module", w.ret.reason)])
                /\ UNCHANGED <<TRUSTED_SIGNERS, exceptAdm>>

\* The manifests launch_module and restart_module are called with directly.
LaunchInputs ==
    {GoodManifest, Manifest("b", <<"IO">>, PAGE_SIZE, Some("Suspend")), OversizeManifest}

\* launch_module called with a manifest and its token.
LaunchModule ==
    \E manifest \in LaunchInputs :
    \E c \in LaunchChoices(mem, manifest.memory_required) :
        /\ Becomes(launch_module(World, manifest, TokenFor(manifest), c[1], c[2],
                                 c[3], c[4]))
        /\ UNCHANGED <<TRUSTED_SIGNERS, MODULE_LOADER, exceptAdm>>

ShutdownModule ==
    \E name \in ModNames :
        /\ Becomes(shutdown_module(World, name))
        /\ UNCHANGED <<TRUSTED_SIGNERS, MODULE_LOADER, exceptAdm>>

RestartModule ==
    \E manifest \in LaunchInputs :
    \E c \in LaunchChoices(mem, manifest.memory_required) :
        /\ Becomes(restart_module(World, manifest, TokenFor(manifest), c[1], c[2],
                                  c[3], c[4]))
        /\ UNCHANGED <<TRUSTED_SIGNERS, MODULE_LOADER, exceptAdm>>

AdmNext ==
    \/ InitTrustedSigners \/ ApproveSigner \/ VerifyAndQueue \/ AdmitNextModule
    \/ LaunchModule \/ ShutdownModule \/ RestartModule

(***************************************************************************)
(* modules/sandbox.rs, modules/mod_runner.rs, modules/registry.rs :        *)
(* capsules, their sandbox contexts and the capsule registry               *)
(***************************************************************************)
Uids == {"u1", "u2"}

\* The uid register_module is called with directly.
DirectUids == {"u3"}

\* crypto::zk::derive_exec_id(name, token)
derive_exec_id(name, token) == <<name, token.owner_module>>

\* SandboxContext::new(manifest, token) : header check, allocate_region of the
\* manifest's memory_required, then the capsule is constructed with the
\* manifest's fault policy (Restart when it names none).
SandboxContext_new(m, manifest, token, f, k, now) ==
    IF ~is_valid(manifest)
    THEN [mem |-> m, ctx |-> None, err |-> "Manifest integrity or policy check failed"]
    ELSE
      LET a == allocate_region(m, manifest.memory_required, f, k) IN
      IF ~IsSome(a.region)
      THEN [mem |-> a.mem, ctx |-> None, err |-> "Sandbox memory allocation failed"]
      ELSE
        LET region == Unwrap(a.region)
            policy == IF IsSome(manifest.fault_policy)
                      THEN Unwrap(manifest.fault_policy) ELSE "Restart"
        IN  [mem |-> a.mem,
             ctx |-> Some([name |-> manifest.name,
                           exec_id |-> derive_exec_id(manifest.name, token),
                           memory |-> region,
                           token |-> token,
                           runtime |-> RuntimeCapsule_new(manifest.name, token, policy,
                                                          region.size, now)]),
             err |-> "Ok"]

\* registry::register_module : the entry keeps what the capsule says when it is
\* registered; an entry under the same uid is replaced.
register_module(reg, uid, manifest, capsule, exec_id, proof, now) ==
    (uid :> [uid |-> uid, name |-> manifest.name, exec_id |-> exec_id,
             manifest |-> manifest, state |-> capsule.state,
             heartbeat |-> last_seen(capsule, now),
             memory_usage |-> capsule.memory_bytes, proof |-> proof]) @@ reg

unregister_module_clears(reg, uid) == IF uid \in DOMAIN reg THEN <<>> ELSE reg

\* registry::unregister_module(uid)
unregister_module(reg, uid) == [u \in (DOMAIN reg) \ {uid} |-> reg[u]]

\* What a caller gets: .cloned() makes a value of the caller's own; a borrow
\* would stay tied to the entry.
cloned_as_reference(meta) == [live |-> TRUE, meta |-> meta]

\* Option<&CapsuleMetadata>::cloned / Iterator::cloned
cloned(meta) == [live |-> FALSE, meta |-> meta]

\* The order a BTreeMap walks the uids in.
UidRank(uid) == CASE uid = "u1" -> 1 [] uid = "u2" -> 2 [] OTHER -> 3

\* values().find(pred) : the first entry in key order.
FirstUid(uids) == CHOOSE u \in uids : \A v \in uids : UidRank(u) <= UidRank(v)

\* registry::list_capsules
list_capsules(reg) == {cloned(reg[u]) : u \in DOMAIN reg}

\* registry::find_by_exec_id
find_by_exec_id(reg, exec_id) ==
    LET hits == {u \in DOMAIN reg : reg[u].exec_id = exec_id} IN
    IF hits = {} THEN None ELSE Some(cloned(reg[FirstUid(hits)]))

\* registry::find_by_name
find_by_name(reg, name) ==
    LET hits == {u \in DOMAIN reg : reg[u].name = name} IN
    IF hits = {} THEN None ELSE Some(cloned(reg[FirstUid(hits)]))

\* registry::export_snapshot : the entries registered as Active.
export_snapshot(reg) == {h \in list_capsules(reg) : h.meta.state = "Active"}

\* registry::active_count : the number of entries, whatever their state.
active_count(reg) == Cardinality(DOMAIN reg)

\* SandboxContext::shutdown : the capsule is Terminating, its memory is zeroized.
shutdown(ctx) == [ctx EXCEPT !.runtime = terminate(@)]

\* SandboxContext::enforce_fault
enforce_fault(ctx) == [ctx EXCEPT !.runtime = fault(@)]

(***************************************************************************)
(* kernel/src/modules/sandbox.rs : sandbox enforcement checks              *)
(***************************************************************************)
RegionType == {"ModBinary", "Heap", "Stack", "Kernel"}

\* memory::region::region_type_of : a frame that belongs to an allocated region
\* is capsule heap, a frame no region owns has no type.
region_type_of(m, addr) ==
    IF (addr \div PAGE_SIZE) \in Frames /\ (addr \div PAGE_SIZE) \notin m.free
    THEN Some("Heap") ELSE None

\* validate_syscall_scope : a lookup in the token and nothing else.
validate_syscall_scope(token, required) ==
    IF required \in Range(token.permissions) THEN "Allowed" ELSE "Denied"

\* check_memory_access : decided by the type of the region the address is in.
check_memory_access(m, token, addr) ==
    LET rt == region_type_of(m, addr) IN
    IF ~IsSome(rt) THEN "Killed"
    ELSE IF Unwrap(rt) \in {"ModBinary", "Heap", "Stack"} THEN "Allowed"
    ELSE "Denied"

\* The admissions handed to the capsule runner: uid, manifest and token.
CapsuleManifests ==
    { GoodManifest,
      Manifest("b", <<"IO">>, PAGE_SIZE, Some("Suspend")),
      OversizeManifest,
      [GoodManifest EXCEPT !.magic = "XXXX"] }

AdmissionInputs ==
    {[uid |-> u, manifest |-> m, token |-> TokenFor(m), proof |-> None] :
        u \in Uids, m \in CapsuleManifests}

CpsInit ==
    /\ REGISTRY = <<>>
    /\ contexts = <<>>
    /\ shut_down = {}
    /\ cps_ret = [op |-> "boot"]
    /\ held = {}

\* mod_runner::launch_module(admission) : the sandbox context is built and
\* tracked, then the capsule is registered under the admission's uid.
CapsuleLaunch ==
    \E admission \in AdmissionInputs :
    \E c \in AllocChoices(mem, admission.manifest.memory_required) :
        LET r == SandboxContext_new(mem, admission.manifest, admission.token,
                                    c[1], c[2], clock)
            context == Unwrap(r.ctx)
        IN  /\ mem' = r.mem
            /\ IF IsSome(r.ctx)
               THEN /\ contexts' = Append(contexts, context)
                    /\ REGISTRY' = register_module(REGISTRY, admission.uid,
                                       admission.manifest, context.runtime,
                                       context.exec_id, admission.proof, clock)
                    /\ cps_ret' = [op |-> "launch_module", kind |-> "Success",
                                   uid |-> admission.uid, ctx |-> Len(contexts) + 1]
               ELSE /\ cps_ret' = [op |-> "launch_module", kind |-> "LaunchFailed",
                                   uid |-> admission.uid, ctx |-> 0]
                    /\ UNCHANGED <<contexts, REGISTRY>>
            /\ UNCHANGED <<shut_down, held, exceptCps>>

\* SandboxContext::enforce_fault on a live context.
EnforceFault ==
    \E i \in DOMAIN contexts :
        /\ contexts' = [contexts EXCEPT ![i] = enforce_fault(@)]
        /\ cps_ret' = [op |-> "enforce_fault", ctx |-> i]
        /\ UNCHANGED <<REGISTRY, shut_down, mem, held, exceptCps>>

\* SandboxContext::shutdown on a live context.
Shutdown ==
    \E i \in DOMAIN contexts :
        /\ contexts' = [contexts EXCEPT ![i] = shutdown(@)]
        /\ mem' = zeroize(mem, contexts[i].memory)
        /\ shut_down' = shut_down \cup {i}
        /\ cps_ret' = [op |-> "shutdown", ctx |-> i]
        /\ UNCHANGED <<REGISTRY, held, exceptCps>>

\* registry::unregister_module(uid)
UnregisterModule ==
    \E uid \in Uids \cup DirectUids :
        /\ REGISTRY' = unregister_module(REGISTRY, uid)
        /\ cps_ret' = [op |-> "unregister_module", uid |-> uid,
                       removed |-> uid \in DOMAIN REGISTRY]
        /\ UNCHANGED <<contexts, shut_down, mem, held, exceptCps>>

\* registry::register_module called again for a tracked capsule ("insert or
\* update"), under any uid.
RegisterModule ==
    \E uid \in DirectUids, i \in DOMAIN contexts :
    \E manifest \in {m \in CapsuleManifests :
                        is_valid(m) /\ m.name = contexts[i].name
                                    /\ TokenFor(m) = contexts[i].token} :
        /\ REGISTRY' = register_module(REGISTRY, uid, manifest, contexts[i].runtime,
                                       contexts[i].exec_id, None, clock)
        /\ cps_ret' = [op |-> "register_module", uid |-> uid, ctx |-> i]
        /\ UNCHANGED <<contexts, shut_down, mem, held, exceptCps>>

CpsNext == CapsuleLaunch \/ EnforceFault \/ Shutdown \/ UnregisterModule \/ RegisterModule

\* The token of the caller of the registry's queries: one without permissions.
\* The queries take no token and look at none.
QueryCallers == { [owner_module |-> "a", permissions |-> <<>>] }

\* registry::list_capsules called: the caller holds what it returned.
ListCapsules ==
    \E caller \in QueryCallers :
        /\ held' = list_capsules(REGISTRY)
        /\ cps_ret' = [op |-> "list_capsules", caller |-> caller]
        /\ UNCHANGED <<REGISTRY, contexts, shut_down, mem, exceptCps>>

\* registry::find_by_name called.
FindByName ==
    \E name \in ModNames, caller \in QueryCallers :
        LET r == find_by_name(REGISTRY, name) IN
        /\ held' = IF IsSome(r) THEN {Unwrap(r)} ELSE {}
        /\ cps_ret' = [op |-> "find_by_name", found |-> IsSome(r), caller |-> caller]
        /\ UNCHANGED <<REGISTRY, contexts, shut_down, mem, exceptCps>>

\* registry::find_by_exec_id called.
FindByExecId ==
    \E caller \in QueryCallers,
       exec_id \in {derive_exec_id(m.name, TokenFor(m)) : m \in CapsuleManifests} :
        LET r == find_by_exec_id(REGISTRY, exec_id) IN
        /\ held' = IF IsSome(r) THEN {Unwrap(r)} ELSE {}
        /\ cps_ret' = [op |-> "find_by_exec_id", found |-> IsSome(r), caller |-> caller]
        /\ UNCHANGED <<REGISTRY, contexts, shut_down, mem, exceptCps>>

\* launch_module while fewer than MaxQueryCapsules capsules have been launched.
BoundedLaunch == Len(contexts) < MaxQueryCapsules /\ CapsuleLaunch

QueryNext ==
    \/ BoundedLaunch \/ EnforceFault \/ Shutdown \/ UnregisterModule \/ RegisterModule
    \/ ListCapsules \/ FindByName \/ FindByExecId

(***************************************************************************)
(* kernel/src/modules/mod_loader.rs, auth.rs, registry.rs : the kernel's   *)
(* module loader and its fixed module table                                *)
(***************************************************************************)
ABI_VERSION == 1

ModRuntimeState ==
    {"Loaded", "Bootstrapped", "Running", "Suspended", "Crashed", "Terminated"}

\* kernel/src/modules/auth.rs verify_signature(hash, sig) : false while the
\* vault is not ready; otherwise the stub passes every signature.
auth_verify_signature(vault_ready, hash, sig) == vault_ready

\* issue_token
issue_token(module_name, caps) == [owner_module |-> module_name, permissions |-> caps]

\* The loader's manifest; a signature names the key that made it and the hash
\* it was made over.
LoadManifest(name, caps, abi, sig) ==
    [name |-> name, hash |-> "h1", required_caps |-> caps, abi_level |-> abi,
     memory_base |-> 0, memory_len |-> PAGE_SIZE, signature |-> sig]

RootSignature == [by |-> "root", over |-> "h1"]

LoadManifestInputs ==
    { LoadManifest("a", <<"IO">>, ABI_VERSION, RootSignature),
      LoadManifest("b", <<"IO", "IPC">>, ABI_VERSION, RootSignature),
      LoadManifest("a", <<"IO">>, ABI_VERSION, [by |-> "root", over |-> "h0"]),
      LoadManifest("b", <<"IO">>, ABI_VERSION, [by |-> "eve", over |-> "h1"]),
      LoadManifest("a", <<>>, ABI_VERSION, RootSignature),
      LoadManifest("", <<"IO">>, ABI_VERSION, RootSignature),
      LoadManifest("a", <<"IO">>, ABI_VERSION + 1, RootSignature) }

\* memory::region::register_region : the region is recorded.
register_region(table, base, len, type, name) ==
    table \cup {[base |-> base, len |-> len, type |-> type, owner |-> name]}

\* The empty slots of the module table.
EmptySlots(registry) == {i \in DOMAIN registry : ~IsSome(registry[i])}

\* kernel/src/modules/registry.rs register_module : the first empty slot takes
\* the instance; a full table is an error and stays as it is.
table_register_module(registry, instance) ==
    IF EmptySlots(registry) = {}
    THEN [ok |-> FALSE, registry |-> registry]
    ELSE LET i == Lowest(EmptySlots(registry)) IN
         [ok |-> TRUE,
          registry |-> [registry EXCEPT ![i] =
                           Some([instance EXCEPT !.boot_order = i - 1, !.last_updated = 0])]]

\* list_modules : clones of the registered instances.
list_modules(registry) == {Unwrap(registry[i]) : i \in (DOMAIN registry) \ EmptySlots(registry)}

\* find_module : a clone of the first instance of that name.
find_module(registry, name) ==
    LET hits == {i \in (DOMAIN registry) \ EmptySlots(registry) :
                    Unwrap(registry[i]).name = name} IN
    IF hits = {} THEN None ELSE registry[Lowest(hits)]

\* update_module_state : the first instance of that name.
update_module_state(registry, name, new_state, now) ==
    LET hits == {i \in (DOMAIN registry) \ EmptySlots(registry) :
                    Unwrap(registry[i]).name = name} IN
    IF hits = {} THEN registry
    ELSE [registry EXCEPT ![Lowest(hits)] =
              Some([Unwrap(@) EXCEPT !.state = new_state, !.last_updated = now])]

\* load_module : vault, manifest structure, ABI level, signature; then the
\* region is recorded, the token built and the instance registered.
load_module(vault_ready, registry, table, manifest) ==
    LET untouched(kind, reason) ==
            [kind |-> kind, reason |-> reason, token |-> None,
             registry |-> registry, table |-> table]
        table1 == register_region(table, manifest.memory_base, manifest.memory_len,
                                  "ModBinary", manifest.name)
        token == issue_token(manifest.name, manifest.required_caps)
        instance == [name |-> manifest.name, token |-> token, state |-> "Loaded",
                     ticks_alive |-> 0, boot_order |-> 0, last_updated |-> 0]
        r == table_register_module(registry, instance)
    IN  IF ~vault_ready THEN untouched("Rejected", "Vault not initialized")
        ELSE IF manifest.name = "" \/ manifest.required_caps = <<>>
        THEN untouched("Rejected", "Invalid manifest structure")
        ELSE IF manifest.abi_level # ABI_VERSION
        THEN untouched("Rejected", "ABI mismatch")
        ELSE IF ~auth_verify_signature(vault_ready, manifest.hash, manifest.signature)
        THEN untouched("Audited", "Module signature verification failed")
        ELSE IF r.ok
        THEN [kind |-> "Accepted", reason |-> "Ok", token |-> Some(token),
              registry |-> r.registry, table |-> table1]
        ELSE [kind |-> "Rejected", reason |-> "Module table full", token |-> None,
              registry |-> r.registry, table |-> table1]

LoadInit ==
    /\ VAULT_READY = FALSE
    /\ MODULE_REGISTRY = [i \in 1..MAX_MODULES |-> None]
    /\ REGION_TABLE = {}
    /\ load_ret = [op |-> "boot"]

\* crypto::vault::init_vault
InitVault ==
    /\ VAULT_READY' = TRUE
    /\ load_ret' = [op |-> "init_vault"]
    /\ UNCHANGED <<MODULE_REGISTRY, REGION_TABLE, exceptLoad>>

LoadModule ==
    \E manifest \in LoadManifestInputs :
        LET r == load_module(VAULT_READY, MODULE_REGISTRY, REGION_TABLE, manifest) IN
        /\ MODULE_REGISTRY' = r.registry
        /\ REGION_TABLE' = r.table
        /\ load_ret' = [op |-> "load_module", kind |-> r.kind, reason |-> r.reason,
                        token |-> r.token, manifest |-> manifest]
        /\ UNCHANGED <<VAULT_READY, exceptLoad>>

UpdateModuleState ==
    \E name \in ModNames, new_state \in {"Running", "Crashed"} :
        /\ MODULE_REGISTRY' = update_module_state(MODULE_REGISTRY, name, new_state, 1)
        /\ load_ret' = [op |-> "update_module_state",
                        found |-> IsSome(find_module(MODULE_REGISTRY, name))]
        /\ UNCHANGED <<VAULT_READY, REGION_TABLE, exceptLoad>>

LoadNext == InitVault \/ LoadModule \/ UpdateModuleState

(***************************************************************************)
(* memory/virt.rs, memory/paging.rs : page mappings and their flags        *)
(***************************************************************************)
\* VmFlags, as far as the conversion looks at them.
VmFlags == {"RW", "GLOBAL", "NX"}

\* The flags allocate_region maps its pages with.
REGION_VM_FLAGS == {"RW", "NX", "GLOBAL"}

\* The pages mappings are made at: the kernel identity range and the runtime
\* heap of paging::init, a 4 KiB page and a 2 MiB page of the virt API.
KernelPages == {"kernel"}
HeapPages == {"heap"}
Pages4k == {"va1"}
Pages2m == {"huge1"}
PtPages == KernelPages \cup HeapPages \cup Pages4k \cup Pages2m

\* to_ptf : writable without NX is refused; otherwise the hardware flags.
to_ptf(f) ==
    IF "NX" \notin f /\ "RW" \in f
    THEN [ok |-> FALSE, err |-> "WxViolation", hw |-> {}]
    ELSE [ok |-> TRUE, err |-> "Ok",
          hw |-> {"PRESENT"}
                 \cup (IF "RW" \in f THEN {"WRITABLE"} ELSE {})
                 \cup (IF "GLOBAL" \in f THEN {"GLOBAL"} ELSE {})
                 \cup (IF "NX" \in f THEN {"NO_EXECUTE"} ELSE {})]

\* map4k_at : a mapped page is an overlap.
map4k_at(pt, va, flags) ==
    LET c == to_ptf(flags) IN
    IF ~c.ok THEN [pt |-> pt, err |-> c.err]
    ELSE IF IsSome(pt[va]) THEN [pt |-> pt, err |-> "Overlap"]
    ELSE [pt |-> [pt EXCEPT ![va] = Some(c.hw)], err |-> "Ok"]

\* protect4k : the entry of a mapped page takes the new flags.
protect4k(pt, va, flags) ==
    LET c == to_ptf(flags) IN
    IF ~c.ok THEN [pt |-> pt, err |-> c.err]
    ELSE IF ~IsSome(pt[va]) THEN [pt |-> pt, err |-> "NotMapped"]
    ELSE [pt |-> [pt EXCEPT ![va] = Some(c.hw)], err |-> "Ok"]

\* map2m_at : as map4k_at, with HUGE_PAGE; map_to fails on a mapped page.
map2m_at(pt, va, flags) ==
    LET c == to_ptf(flags) IN
    IF ~c.ok THEN [pt |-> pt, err |-> c.err]
    ELSE IF IsSome(pt[va]) THEN [pt |-> pt, err |-> "NoMemory"]
    ELSE [pt |-> [pt EXCEPT ![va] = Some(c.hw \cup {"HUGE_PAGE"})], err |-> "Ok"]

\* paging::map_kernel_identity : PRESENT | WRITABLE | NO_EXECUTE.
map_kernel_identity(pt) ==
    [p \in PtPages |-> IF p \in KernelPages
                       THEN Some({"PRESENT", "WRITABLE", "NO_EXECUTE"}) ELSE pt[p]]

\* paging::map_runtime_heap : PRESENT | WRITABLE.
map_runtime_heap(pt) ==
    [p \in PtPages |-> IF p \in HeapPages THEN Some({"PRESENT", "WRITABLE"}) ELSE pt[p]]

PagInit ==
    /\ PAGE_TABLE = [p \in PtPages |-> None]
    /\ paging_ready = FALSE
    /\ pt_ret = [op |-> "boot", err |-> "Ok"]

\* paging::init, once at boot.
PagingInit ==
    /\ ~paging_ready
    /\ PAGE_TABLE' = map_runtime_heap(map_kernel_identity(PAGE_TABLE))
    /\ paging_ready' = TRUE
    /\ pt_ret' = [op |-> "init", err |-> "Ok"]
    /\ UNCHANGED exceptPag

\* The page mapping of allocate_region.
AllocateRegionMap ==
    \E va \in Pages4k :
        LET r == map4k_at(PAGE_TABLE, va, REGION_VM_FLAGS) IN
        /\ PAGE_TABLE' = r.pt
        /\ pt_ret' = [op |-> "allocate_region", err |-> r.err, va |-> va]
        /\ UNCHANGED <<paging_ready, exceptPag>>

Map4kAt ==
    \E va \in Pages4k, flags \in SUBSET VmFlags :
        LET r == map4k_at(PAGE_TABLE, va, flags) IN
        /\ PAGE_TABLE' = r.pt
        /\ pt_ret' = [op |-> "map4k_at", err |-> r.err, va |-> va]
        /\ UNCHANGED <<paging_ready, exceptPag>>

Map2mAt ==
    \E va \in Pages2m, flags \in SUBSET VmFlags :
        LET r == map2m_at(PAGE_TABLE, va, flags) IN
        /\ PAGE_TABLE' = r.pt
        /\ pt_ret' = [op |-> "map2m_at", err |-> r.err, va |-> va]
        /\ UNCHANGED <<paging_ready, exceptPag>>

Protect4k ==
    \E va \in Pages4k, flags \in SUBSET VmFlags :
        LET r == protect4k(PAGE_TABLE, va, flags) IN
        /\ PAGE_TABLE' = r.pt
        /\ pt_ret' = [op |-> "protect4k", err |-> r.err, va |-> va]
        /\ UNCHANGED <<paging_ready, exceptPag>>

PagNext == PagingInit \/ AllocateRegionMap \/ Map4kAt \/ Map2mAt \/ Protect4k

(***************************************************************************)
(* sched/scheduler.rs and mod_runner.rs : the steps of launch_module       *)
(***************************************************************************)
\* Most tasks the queue is followed with.
MaxTasks == 2

\* Task, as spawn_task makes it.
Task(name) == [name |-> name, ticks |-> 0]

\* scheduler::spawn_task : the task goes to the back of the queue.
spawn_task(queue, name) == Append(queue, Task(name))

\* One pass of run_scheduler over the queue: a task that is Ready leaves, a
\* task that is Pending has ticked once more and stays, in order.
RECURSIVE poll_queue(_, _, _)
poll_queue(queue, ready, i) ==
    IF i > Len(queue) THEN <<>>
    ELSE IF i \in ready THEN poll_queue(queue, ready, i + 1)
    ELSE <<[queue[i] EXCEPT !.ticks = @ + 1]>> \o poll_queue(queue, ready, i + 1)

SchedInit ==
    /\ SCHED_QUEUE = <<>>
    /\ SCHED_INSTANCES = <<>>
    /\ launch_pc = None

\* launch_module up to the sandbox and the IPC binding: a failed check returns,
\* otherwise the launch stands before spawn_task.
LaunchChecks ==
    \E name \in ModNames, checks_ok \in BOOLEAN :
        /\ launch_pc = None
        /\ Len(SCHED_QUEUE) < MaxTasks
        /\ launch_pc' = IF checks_ok /\ ~is_registered(SCHED_INSTANCES, name)
                        THEN Some([name |-> name, at |-> "spawn_task"])
                        ELSE None
        /\ UNCHANGED <<SCHED_QUEUE, SCHED_INSTANCES, exceptSched>>

\* launch_module: let id = spawn_task(entry, sandbox.clone())?
SpawnTask ==
    /\ launch_pc # None
    /\ Unwrap(launch_pc).at = "spawn_task"
    /\ SCHED_QUEUE' = spawn_task(SCHED_QUEUE, Unwrap(launch_pc).name)
    /\ launch_pc' = Some([Unwrap(launch_pc) EXCEPT !.at = "register_module_instance"])
    /\ UNCHANGED <<SCHED_INSTANCES, exceptSched>>

\* launch_module: register_module_instance(manifest.name(), &instance), and
\* the return.
RegisterModuleInstance ==
    /\ launch_pc # None
    /\ Unwrap(launch_pc).at = "register_module_instance"
    /\ SCHED_INSTANCES' =
           register_module_instance(SCHED_INSTANCES, Unwrap(launch_pc).name,
                                    [name |-> Unwrap(launch_pc).name])
    /\ launch_pc' = None
    /\ UNCHANGED <<SCHED_QUEUE, exceptSched>>

\* run_scheduler polls the queue once; it takes the queue lock and nothing
\* else, so it runs whatever spawn_task has queued.
RunScheduler ==
    \E ready \in SUBSET DOMAIN SCHED_QUEUE :
        /\ SCHED_QUEUE # <<>>
        /\ \A i \in DOMAIN SCHED_QUEUE : SCHED_QUEUE[i].ticks < MaxTicks
        /\ SCHED_QUEUE' = poll_queue(SCHED_QUEUE, ready, 1)
        /\ UNCHANGED <<SCHED_INSTANCES, launch_pc, exceptSched>>

\* shutdown_module: the registration goes, the task stays queued.
SchedShutdownModule ==
    \E name \in ModNames :
        /\ launch_pc = None
        /\ is_registered(SCHED_INSTANCES, name)
        /\ SCHED_INSTANCES' = unregister_instance(SCHED_INSTANCES, name)
        /\ UNCHANGED <<SCHED_QUEUE, launch_pc, exceptSched>>

SchedNext ==
    LaunchChecks \/ SpawnTask \/ RegisterModuleInstance \/ RunScheduler
        \/ SchedShutdownModule

(***************************************************************************)
(* modules/mod_loader.rs : the loader mutex under concurrent admissions    *)
(***************************************************************************)
\* The contexts that call the loader at the same time.
Admitters == {"p1", "p2"}

\* The manifests they submit: two that verify and one that does not.
LockManifests ==
    { GoodManifest,
      Manifest("b", <<"IO">>, PAGE_SIZE, Some("Suspend")),
      [GoodManifest EXCEPT !.signature = Some([by |-> "root", over |-> "h0"])] }

Idle == [at |-> "idle", op |-> "none", manifest |-> None, ret |-> "none"]

LockInit ==
    /\ loader_lock = None
    /\ loader_state = [queue |-> <<>>, rejected_count |-> 0]
    /\ admitting = [p \in Admitters |-> Idle]

\* verify_and_queue(manifest) is called: its first statement is
\* MODULE_LOADER.lock().
VqCall ==
    \E p \in Admitters, manifest \in LockManifests :
        /\ admitting[p].at = "idle"
        /\ loader_state.rejected_count < MaxRejected
        /\ admitting' = [admitting EXCEPT ![p] =
               [at |-> "lock", op |-> "verify_and_queue", manifest |-> Some(manifest),
                ret |-> "none"]]
        /\ UNCHANGED <<loader_lock, loader_state, exceptLock>>

\* admit_next_module() is called: its first statement is MODULE_LOADER.lock().
AnCall ==
    \E p \in Admitters :
        /\ admitting[p].at = "idle"
        /\ admitting' = [admitting EXCEPT ![p] =
               [at |-> "lock", op |-> "admit_next_module", manifest |-> None, ret |-> "none"]]
        /\ UNCHANGED <<loader_lock, loader_state, exceptLock>>

\* verify_and_queue with a queue guard that lets one entry too many in.
VqLock_late_guard ==
    \E p \in Admitters :
        /\ admitting[p].at = "lock" /\ admitting[p].op = "verify_and_queue"
        /\ loader_lock = None
        /\ loader_lock' = Some(p)
        /\ admitting' = [admitting EXCEPT ![p] =
               IF Len(loader_state.queue) > MAX_VERIFIED_QUEUE
               THEN [@ EXCEPT !.at = "return", !.ret = "Queue full"]
               ELSE [@ EXCEPT !.at = "authenticate_manifest"]]
        /\ UNCHANGED <<loader_state, exceptLock>>

\* verify_and_queue gets the mutex, which lock() spins for until it is free;
\* the queue length is tested and, with the guard still alive,
\* authenticate_manifest is entered.
VqLock ==
    \E p \in Admitters :
        /\ admitting[p].at = "lock" /\ admitting[p].op = "verify_and_queue"
        /\ loader_lock = None
        /\ loader_lock' = Some(p)
        /\ admitting' = [admitting EXCEPT ![p] =
               IF Len(loader_state.queue) >= MAX_VERIFIED_QUEUE
               THEN [@ EXCEPT !.at = "return", !.ret = "Queue full"]
               ELSE [@ EXCEPT !.at = "authenticate_manifest"]]
        /\ UNCHANGED <<loader_state, exceptLock>>

\* verify_and_queue: authenticate_manifest returns, its result is pushed or
\* counted.
VqAuthenticated ==
    \E p \in Admitters :
        /\ admitting[p].at = "authenticate_manifest"
        /\ LET manifest == Unwrap(admitting[p].manifest)
               auth == authenticate_manifest(init_trusted_signers, manifest)
           IN  loader_state' =
                   IF auth.kind = "Verified"
                   THEN [loader_state EXCEPT !.queue =
                            Append(@, [manifest |-> manifest, token |-> auth.token])]
                   ELSE [loader_state EXCEPT !.rejected_count = @ + 1]
        /\ admitting' = [admitting EXCEPT ![p].at = "return",
               ![p].ret = LET auth == authenticate_manifest(init_trusted_signers,
                                                           Unwrap(admitting[p].manifest))
                          IN  IF auth.kind = "Verified" THEN "Ok" ELSE auth.reason]
        /\ UNCHANGED <<loader_lock, exceptLock>>

\* admit_next_module gets the mutex; the oldest entry is removed and, with the
\* guard still alive, launch_module is entered.
AnLock ==
    \E p \in Admitters :
        /\ admitting[p].at = "lock" /\ admitting[p].op = "admit_next_module"
        /\ loader_lock = None
        /\ loader_lock' = Some(p)
        /\ IF loader_state.queue = <<>>
           THEN /\ admitting' = [admitting EXCEPT ![p].at = "return",
                                              ![p].ret = "No verified modules pending"]
                /\ UNCHANGED loader_state
           ELSE /\ admitting' = [admitting EXCEPT ![p] =
                       [at |-> "launch_module", op |-> "admit_next_module",
                        manifest |-> Some(Head(loader_state.queue).manifest),
                        ret |-> "none"]]
                /\ loader_state' = [loader_state EXCEPT !.queue = Tail(@)]
        /\ UNCHANGED exceptLock

\* admit_next_module: launch_module returns and the instance is registered.
AnLaunched ==
    \E p \in Admitters :
        /\ admitting[p].at = "launch_module"
        /\ admitting' = [admitting EXCEPT ![p].at = "return", ![p].ret = "Ok"]
        /\ UNCHANGED <<loader_lock, loader_state, exceptLock>>

\* Either function returns: the guard is dropped, the mutex is free.
LoaderReturn ==
    \E p \in Admitters :
        /\ admitting[p].at = "return"
        /\ loader_lock' = None
        /\ admitting' = [admitting EXCEPT ![p] = Idle]
        /\ UNCHANGED <<loader_state, exceptLock>>

LockNext ==
    VqCall \/ AnCall \/ VqLock \/ VqAuthenticated \/ AnLock \/ AnLaunched
        \/ LoaderReturn

(***************************************************************************)
(* kernel/src/modules/runtime.rs : the runtime census and its watchdog     *)
(***************************************************************************)
\* ModRuntimeState of the runtime census.
CensusState ==
    {"Loaded", "Running", "Crashed", "Halted", "Terminated", "Restarting",
     "WatchdogTimeout"}

\* A ModInstance as its loader fills it in.
ModInstance(name, state, watchdog_limit) ==
    [name |-> name, state |-> state, ticks_alive |-> 0, last_updated |-> 0,
     crash_count |-> 0, restart_attempts |-> 0, watchdog_limit |-> watchdog_limit]

\* runtime::register_module : the first empty slot takes the instance, its
\* counters reset; Err when no slot is empty.
census_register_module(modules, instance) ==
    LET empty == {i \in DOMAIN modules : modules[i] = None} IN
    IF empty = {} THEN [kind |-> "Err", modules |-> modules]
    ELSE LET i == CHOOSE k \in empty : \A l \in empty : k <= l IN
         [kind |-> "Ok",
          modules |-> [modules EXCEPT ![i] =
              Some([instance EXCEPT !.last_updated = 0, !.crash_count = 0,
                                    !.restart_attempts = 0])]]

\* One slot of update_ticks: a Running module ages by one tick and is marked
\* WatchdogTimeout once it is older than its limit; nothing else is done.
update_tick(m) ==
    IF m.state # "Running" THEN m
    ELSE LET aged == [m EXCEPT !.ticks_alive = @ + 1, !.last_updated = @ + 1] IN
         IF IsSome(aged.watchdog_limit) /\ aged.last_updated > Unwrap(aged.watchdog_limit)
         THEN [aged EXCEPT !.state = "WatchdogTimeout"]
         ELSE aged

\* runtime::update_ticks
update_ticks(modules) ==
    [i \in DOMAIN modules |->
        IF modules[i] = None THEN None ELSE Some(update_tick(Unwrap(modules[i])))]

\* runtime::set_module_state : the first module of that name takes the state,
\* its age is reset, a crash or a restart is counted.
set_module_state(modules, name, new_state) ==
    LET hits == {i \in DOMAIN modules :
                    modules[i] # None /\ Unwrap(modules[i]).name = name} IN
    IF hits = {} THEN modules
    ELSE LET i == CHOOSE k \in hits : \A l \in hits : k <= l
             m == Unwrap(modules[i])
         IN  [modules EXCEPT ![i] =
                 Some([m EXCEPT !.crash_count =
                                    IF new_state = "Crashed" THEN @ + 1 ELSE @,
                                !.restart_attempts =
                                    IF new_state = "Restarting" THEN @ + 1 ELSE @,
                                !.state = new_state,
                                !.last_updated = 0])]

CensusNames == {"a", "b"}

CensusInit ==
    /\ MODULES = [i \in 1..MAX_MODULES |-> None]
    /\ census_ret = [op |-> "boot"]

CensusRegisterModule ==
    \E name \in CensusNames, state \in {"Loaded", "Running"},
       limit \in {None, Some(1)} :
        LET r == census_register_module(MODULES, ModInstance(name, state, limit)) IN
        /\ \A i \in DOMAIN MODULES :
               MODULES[i] # None => Unwrap(MODULES[i]).name # name
        /\ MODULES' = r.modules
        /\ census_ret' = [op |-> "register_module", kind |-> r.kind]
        /\ UNCHANGED exceptCensus

\* The timer interrupt.
UpdateTicks ==
    /\ \A i \in DOMAIN MODULES :
           (MODULES[i] # None /\ Unwrap(MODULES[i]).state = "Running")
               => Unwrap(MODULES[i]).ticks_alive < MaxTicks
    /\ MODULES' = update_ticks(MODULES)
    /\ census_ret' = [op |-> "update_ticks", kind |-> "Ok"]
    /\ UNCHANGED exceptCensus

\* The kernel or the scheduler sets a state: a heartbeat (Running again) or a
\* halt.
SetModuleState ==
    \E name \in CensusNames, new_state \in {"Running", "Halted"} :
        /\ MODULES' = set_module_state(MODULES, name, new_state)
        /\ census_ret' = [op |-> "set_module_state", kind |-> "Ok"]
        /\ UNCHANGED exceptCensus

CensusNext == CensusRegisterModule \/ UpdateTicks \/ SetModuleState

(***************************************************************************)
(* boot/src/capsule.rs, boot/src/zkmeta.rs, kernel/src/modules/manifest.rs *)
(* : parsers of blobs with declared sections                               *)
(***************************************************************************)
\* size_of::<CapsuleHeader>() : repr(C), six bytes, two of padding, four u32.
CAPSULE_HEADER_SIZE == 24

\* size_of::<CapsuleMeta>() : repr(C, packed).
CAPSULE_META_SIZE == 70

\* blob[a..b] : the slice, or a panic when a > b or b > len.
Slice(len, a, b) ==
    IF a <= b /\ b <= len THEN [kind |-> "Ok", from |-> a, to |-> b]
    ELSE [kind |-> "Panic", from |-> a, to |-> b]

\* The largest usize of the model: words are 31 bits wide here.
USIZE_MAX == 2147483647

\* usize::checked_add
checked_add(a, b) == IF a > USIZE_MAX - b THEN None ELSE Some(a + b)

ranges_overlap_closed(a0, a1, b0, b1) == a0 <= b1 /\ b0 <= a1

\* capsule.rs ranges_overlap
ranges_overlap(a0, a1, b0, b1) == a0 < b1 /\ b0 < a1

\* capsule.rs validate_layout.  The offsets and lengths are u32 values widened
\* to usize, so the checked additions cannot overflow.
validate_layout(blob_len, h) ==
    LET sig_end == checked_add(h.offset_sig, h.len_sig)
        pay_end == checked_add(h.offset_payload, h.len_payload)
    IN  IF h.len_sig = 0 \/ h.len_payload = 0 THEN "empty sig or payload"
        ELSE IF ~IsSome(sig_end) THEN "sig len overflow"
        ELSE IF ~IsSome(pay_end) THEN "payload len overflow"
        ELSE IF Unwrap(sig_end) > blob_len \/ Unwrap(pay_end) > blob_len
        THEN "offsets out of bounds"
        ELSE IF ranges_overlap(h.offset_sig, Unwrap(sig_end),
                               h.offset_payload, Unwrap(pay_end))
                /\ ~(h.offset_sig = h.offset_payload /\ sig_end = pay_end)
        THEN "sig/payload overlap"
        ELSE IF CAPSULE_HEADER_SIZE > blob_len THEN "header truncated"
        ELSE "Ok"

from_blob_header_first(b) ==
    IF ~b.basic_valid
    THEN [kind |-> "Err", err |-> "invalid capsule magic/version", header_read |-> TRUE]
    ELSE IF b.blob_len < CAPSULE_HEADER_SIZE
    THEN [kind |-> "Err", err |-> "blob too small for header", header_read |-> TRUE]
    ELSE [kind |-> "Err", err |-> validate_layout(b.blob_len, b), header_read |-> TRUE]

\* Capsule::from_blob, and the sig() and payload() slices of the capsule made.
\* The header is read (read_unaligned) once the blob is known to hold one.
from_blob(b) ==
    IF b.blob_len < CAPSULE_HEADER_SIZE
    THEN [kind |-> "Err", err |-> "blob too small for header", header_read |-> FALSE]
    ELSE IF ~b.basic_valid
    THEN [kind |-> "Err", err |-> "invalid capsule magic/version", header_read |-> TRUE]
    ELSE IF validate_layout(b.blob_len, b) # "Ok"
    THEN [kind |-> "Err", err |-> validate_layout(b.blob_len, b), header_read |-> TRUE]
    ELSE [kind |-> "Ok", err |-> "Ok", header_read |-> TRUE,
          sig |-> Slice(b.blob_len, b.offset_sig, b.offset_sig + b.len_sig),
          payload |-> Slice(b.blob_len, b.offset_payload,
                            b.offset_payload + b.len_payload)]

\* zkmeta.rs parse_capsule_metadata : length, then the header is read and its
\* magic compared.
parse_capsule_metadata(b) ==
    IF b.blob_len < CAPSULE_META_SIZE
    THEN [kind |-> "Err", err |-> "Capsule header too short", header_read |-> FALSE]
    ELSE IF ~b.basic_valid
    THEN [kind |-> "Err", err |-> "Invalid capsule magic tag", header_read |-> TRUE]
    ELSE [kind |-> "Ok", err |-> "Ok", header_read |-> TRUE]

\* zkmeta.rs parse_capsule_metadata followed by extract_signature_and_payload :
\* the payload is what lies between the header and the signature.
extract_signature_and_payload(b) ==
    IF parse_capsule_metadata(b).kind # "Ok"
    THEN parse_capsule_metadata(b)
    ELSE
      LET sig_start == b.sig_offset
          sig_end == sig_start + b.sig_len
          sig == Slice(b.blob_len, sig_start, sig_end)
          payload == Slice(b.blob_len, CAPSULE_META_SIZE, sig_start)
      IN  IF sig_end > b.blob_len
          THEN [kind |-> "Err", err |-> "Signature offset out of bounds",
                header_read |-> TRUE]
          ELSE IF sig.kind = "Panic" \/ payload.kind = "Panic"
          THEN [kind |-> "Panic", err |-> "slice index", header_read |-> TRUE]
          ELSE [kind |-> "Ok", err |-> "Ok", header_read |-> TRUE,
                sig |-> sig, payload |-> payload]

\* ModuleManifest::declared_capabilities : num_caps elements are read from
\* caps_ptr, however many elements the array behind it has.  Reading past it
\* is undefined: the bytes that lie there, or a fault.
declared_capabilities(m) ==
    IF m.num_caps <= m.caps_backing
    THEN {[kind |-> "Ok", err |-> "Ok", read |-> m.num_caps]}
    ELSE {[kind |-> "Ok", err |-> "read out of bounds", read |-> m.num_caps],
          [kind |-> "Fault", err |-> "read out of bounds", read |-> 0]}

CapsuleBlobs ==
    [blob_len : {0, CAPSULE_HEADER_SIZE - 1, CAPSULE_HEADER_SIZE + 16},
     basic_valid : BOOLEAN,
     offset_sig : {0, CAPSULE_HEADER_SIZE, CAPSULE_HEADER_SIZE + 12},
     len_sig : {0, 4, 8},
     offset_payload : {CAPSULE_HEADER_SIZE + 4, CAPSULE_HEADER_SIZE + 12},
     len_payload : {0, 4, 8}]

MetaBlobs ==
    [blob_len : {0, CAPSULE_META_SIZE - 1, CAPSULE_META_SIZE + 16},
     basic_valid : BOOLEAN,
     sig_offset : {0, CAPSULE_META_SIZE - 8, CAPSULE_META_SIZE, CAPSULE_META_SIZE + 12},
     sig_len : {0, 4, 8}]

ManifestCaps == [num_caps : 0..3, caps_backing : 0..2]

ParseInit == parse_ret = [op |-> "boot", kind |-> "Ok"]

FromBlob ==
    \E b \in CapsuleBlobs :
        /\ parse_ret' = [op |-> "from_blob", input |-> b, kind |-> from_blob(b).kind,
                         out |-> from_blob(b)]
        /\ UNCHANGED exceptParse

ExtractSignatureAndPayload ==
    \E b \in MetaBlobs :
        /\ parse_ret' = [op |-> "extract_signature_and_payload", input |-> b,
                         kind |-> extract_signature_and_payload(b).kind,
                         out |-> extract_signature_and_payload(b)]
        /\ UNCHANGED exceptParse

ParseCapsuleMetadata ==
    \E b \in MetaBlobs :
        /\ parse_ret' = [op |-> "parse_capsule_metadata", input |-> b,
                         kind |-> parse_capsule_metadata(b).kind,
                         out |-> parse_capsule_metadata(b)]
        /\ UNCHANGED exceptParse

DeclaredCapabilities ==
    \E m \in ManifestCaps :
    \E r \in declared_capabilities(m) :
        /\ parse_ret' = [op |-> "declared_capabilities", input |-> m, kind |-> r.kind,
                         out |-> r]
        /\ UNCHANGED exceptParse

(***************************************************************************)
(* boot/src/capsule.rs : the wire layout of a capsule and the header read  *)
(***************************************************************************)
\* CAPSULE_MAGIC = b"N0N\0", CAPSULE_VERSION
CAPSULE_MAGIC == <<78, 48, 78, 0>>
CAPSULE_VERSION == 1

\* The header size the layout comment gives: 4 + 1 + 1 + 4 * 4.
WIRE_HEADER_SIZE == 22

\* A u32, little-endian.
LE32(v) == <<v % 256, (v \div 256) % 256, (v \div 65536) % 256, (v \div 16777216) % 256>>

\* The u32 at a byte offset (from 0) of a blob.
FromLE32(bytes, off) ==
    bytes[off + 1] + 256 * bytes[off + 2] + 65536 * bytes[off + 3]
        + 16777216 * bytes[off + 4]

\* The blob the layout comment of capsule.rs describes: magic, version, flags,
\* offset_sig, offset_payload, len_sig, len_payload back to back, then the
\* sections (zero bytes here) up to blob_len.
serialize(h, blob_len) ==
    CAPSULE_MAGIC \o <<h.version, h.flags>>
        \o LE32(h.offset_sig) \o LE32(h.offset_payload)
        \o LE32(h.len_sig) \o LE32(h.len_payload)
        \o [i \in 1..(blob_len - WIRE_HEADER_SIZE) |-> 0]

\* ptr::read_unaligned of a #[repr(C)] CapsuleHeader: the four u32 fields are
\* aligned to 4, so two bytes of padding follow flags and offset_sig is at 8.
read_unaligned(bytes) ==
    [magic |-> SubSeq(bytes, 1, 4), version |-> bytes[5], flags |-> bytes[6],
     offset_sig |-> FromLE32(bytes, 8), offset_payload |-> FromLE32(bytes, 12),
     len_sig |-> FromLE32(bytes, 16), len_payload |-> FromLE32(bytes, 20)]

\* Capsule::to_metadata
to_metadata(header) ==
    [version |-> header.version, flags |-> header.flags,
     offset_sig |-> header.offset_sig, offset_payload |-> header.offset_payload,
     len_sig |-> header.len_sig, len_payload |-> header.len_payload]

\* Capsule::from_blob on the bytes of a blob, with the metadata of the capsule
\* it makes.
from_blob_bytes(bytes) ==
    IF Len(bytes) < CAPSULE_HEADER_SIZE
    THEN [kind |-> "Err", err |-> "blob too small for header", meta |-> None]
    ELSE LET header == read_unaligned(bytes)
             r == from_blob([blob_len |-> Len(bytes),
                             basic_valid |-> header.magic = CAPSULE_MAGIC
                                             /\ header.version = CAPSULE_VERSION,
                             offset_sig |-> header.offset_sig,
                             offset_payload |-> header.offset_payload,
                             len_sig |-> header.len_sig,
                             len_payload |-> header.len_payload])
         IN  [kind |-> r.kind, err |-> r.err,
              meta |-> IF r.kind = "Ok" THEN Some(to_metadata(header)) ELSE None]

\* Capsule records whose sections lie behind the header and inside a blob of
\* WireBlobLen bytes.
WireBlobLen == 48

WireHeaders ==
    [version : {CAPSULE_VERSION}, flags : {0, 1},
     offset_sig : {24, 28}, len_sig : {4, 8},
     offset_payload : {36, 40}, len_payload : {4, 8}]

\* A capsule record is written out and the blob is parsed.
RoundTrip ==
    \E h \in WireHeaders :
        LET r == from_blob_bytes(serialize(h, WireBlobLen)) IN
        /\ parse_ret' = [op |-> "round_trip", input |-> h, kind |-> r.kind, out |-> r]
        /\ UNCHANGED exceptParse

\* Spans as validate_layout is given them by its callers and its tests.
LayoutInputs ==
    [blob_len : {CAPSULE_HEADER_SIZE - 4, CAPSULE_HEADER_SIZE + 16},
     offset_sig : {0, CAPSULE_HEADER_SIZE, CAPSULE_HEADER_SIZE + 4, USIZE_MAX},
     len_sig : {0, 4, 8},
     offset_payload : {4, CAPSULE_HEADER_SIZE, CAPSULE_HEADER_SIZE + 4,
                       CAPSULE_HEADER_SIZE + 8},
     len_payload : {0, 4, 8}]

\* validate_layout is called on a blob length and a header.
ValidateLayout ==
    \E i \in LayoutInputs :
        LET r == validate_layout(i.blob_len, i) IN
        /\ parse_ret' = [op |-> "validate_layout", input |-> i,
                         kind |-> IF r = "Ok" THEN "Ok" ELSE "Err",
                         out |-> [err |-> r]]
        /\ UNCHANGED exceptParse

(***************************************************************************)
(* boot/src/verify.rs : validate_meta                                      *)
(***************************************************************************)
\* validate_meta(blob, meta): the error, or "Ok".
validate_meta(blob_len, meta) ==
    IF blob_len = 0 THEN "empty capsule blob"
    ELSE IF meta.len_sig > blob_len \/ meta.len_payload > blob_len
    THEN "declared lengths exceed blob"
    ELSE "Ok"

\* Blobs and metadata as the test of verify.rs builds them, and their
\* neighbours.
MetaInputs ==
    [blob_len : {0, 64}, offset_sig : {0, 60}, len_sig : {8, 80},
     offset_payload : {0, 56}, len_payload : {16}]

\* validate_meta is called on a blob and its metadata.
ValidateMeta ==
    \E i \in MetaInputs :
        LET r == validate_meta(i.blob_len, i) IN
        /\ parse_ret' = [op |-> "validate_meta", input |-> i,
                         kind |-> IF r = "Ok" THEN "Ok" ELSE "Err",
                         out |-> [err |-> r]]
        /\ UNCHANGED exceptParse

(***************************************************************************)
(* boot/src/verify.rs, boot/src/zkverify.rs : capsule verification         *)
(***************************************************************************)
\* Digests, as the function and the input that made them: different hash
\* functions, keys or inputs give different digests.
blake3_derive_key(context, data) == [alg |-> "blake3-derive-key", key |-> context, data |-> data]
sha256(data) == [alg |-> "sha256", key |-> "", data |-> data]

DS_CAPSULE_COMMIT == "NONOS:CAPSULE:COMMITMENT:v1"
DS_PROGRAM_HASH == "NONOS:ZK:PROGRAM:v1"

\* verify.rs blake3_commit
blake3_commit(payload) == blake3_derive_key(DS_CAPSULE_COMMIT, payload)

\* verify.rs known_program_hash
verify_known_program_hash == blake3_derive_key(DS_PROGRAM_HASH, "zkmod-attestation-program-v1")

\* zkverify.rs known_program_hash
zkverify_known_program_hash == sha256("zkmod-attestation-program-v1")

\* verify.rs slices_for : the error, or "Ok".
slices_for(blob_len, meta) ==
    LET sig_end == checked_add(meta.offset_sig, meta.len_sig)
        pay_end == checked_add(meta.offset_payload, meta.len_payload)
    IN  IF ~IsSome(sig_end) THEN "sig len overflow"
        ELSE IF ~IsSome(pay_end) THEN "payload len overflow"
        ELSE IF Unwrap(sig_end) > blob_len \/ Unwrap(pay_end) > blob_len
        THEN "offsets out of bounds"
        ELSE IF meta.len_sig = 0 \/ meta.len_payload = 0 THEN "empty sig or payload"
        ELSE IF ranges_overlap(meta.offset_sig, Unwrap(sig_end),
                               meta.offset_payload, Unwrap(pay_end))
                /\ ~(meta.offset_sig = meta.offset_payload /\ sig_end = pay_end)
        THEN "sig/payload overlap"
        ELSE "Ok"

\* verify.rs extract_zk_proof : the proof built from the two slices of a blob
\* whose signature section holds sig and whose payload section holds payload.
extract_zk_proof(sig, payload) ==
    [proof_blob |-> sig, public_inputs |-> payload,
     program_hash |-> verify_known_program_hash,
     capsule_commitment |-> blake3_commit(payload)]

\* zkverify.rs is_mock_valid : more than four bytes, the first four AA BB CC DD.
is_mock_valid(blob) == blob.len > 4 /\ blob.prefix = "AABBCCDD"

\* zkverify.rs verify_proof
verify_proof(proof) ==
    IF proof.program_hash # zkverify_known_program_hash
    THEN [kind |-> "Unsupported", err |-> "Unknown zkVM circuit hash"]
    ELSE IF sha256(proof.public_inputs) # proof.capsule_commitment
    THEN [kind |-> "Invalid", err |-> "Commitment mismatch"]
    ELSE IF is_mock_valid(proof.proof_blob) THEN [kind |-> "Valid", err |-> "Ok"]
    ELSE [kind |-> "Invalid", err |-> "Proof integrity check failed"]

\* zkmeta.rs requires_zk
requires_zk(meta) == meta.flags % 2 # 0

\* verify.rs verify_capsule; crypto::sig::verify_signature answers sig_valid.
verify_capsule(c) ==
    LET vm == validate_meta(c.blob_len, c) IN
    IF vm # "Ok" THEN [kind |-> "Failed", err |-> vm]
    ELSE IF requires_zk(c)
    THEN LET sl == slices_for(c.blob_len, c) IN
         IF sl # "Ok" THEN [kind |-> "Failed", err |-> sl]
         ELSE LET v == verify_proof(extract_zk_proof(c.sig, c.payload)) IN
              IF v.kind = "Valid" THEN [kind |-> "ZkVerified", err |-> "Ok"]
              ELSE [kind |-> "Failed", err |-> v.err]
    ELSE IF c.sig_valid THEN [kind |-> "StaticVerified", err |-> "Ok"]
    ELSE [kind |-> "Failed", err |-> "signature verification failed"]

\* Capsules handed to verify_capsule: a 64-byte blob with its metadata, what
\* its signature section holds and what its payload is.
VerifyInputs ==
    [blob_len : {64}, flags : {0, 1}, offset_sig : {0, 60}, len_sig : {8},
     offset_payload : {16}, len_payload : {16},
     sig : {[len |-> 8, prefix |-> "AABBCCDD"], [len |-> 8, prefix |-> "00000000"]},
     payload : {"kernel-a", "kernel-b"}, sig_valid : BOOLEAN]

VerifyCapsule ==
    \E c \in VerifyInputs :
        LET r == verify_capsule(c) IN
        /\ parse_ret' = [op |-> "verify_capsule", input |-> c, kind |-> r.kind,
                         out |-> [err |-> r.err]]
        /\ UNCHANGED exceptParse

(***************************************************************************)
(* boot/src/loader.rs : load_kernel_capsule                                *)
(***************************************************************************)
MAX_CAPSULE_SIZE == 33554432

\* load_kernel_capsule from the size test on.  The buffer is "none" before it
\* is allocated, "file" once file.read has filled it and "zeroed" after
\* zero_buf.  verification is what capsule.verify() answers and entry_inside
\* whether entry_address() lies in the payload.
load_kernel_capsule(f) ==
    IF f.blob.blob_len = 0 \/ f.blob.blob_len > MAX_CAPSULE_SIZE
    THEN [kind |-> "Err", err |-> "[x] Capsule size invalid or exceeds limit",
          buffer |-> "none"]
    ELSE IF f.short_read
    THEN [kind |-> "Err", err |-> "[x] Short read on capsule file", buffer |-> "file"]
    ELSE IF from_blob(f.blob).kind = "Err"
    THEN [kind |-> "Err", err |-> from_blob(f.blob).err, buffer |-> "file"]
    ELSE IF f.verification = "Failed"
    THEN [kind |-> "Err", err |-> "[x] Capsule verification failed", buffer |-> "zeroed"]
    ELSE IF ~f.entry_inside
    THEN [kind |-> "Err", err |-> "[x] Entry point outside payload range",
          buffer |-> "zeroed"]
    ELSE [kind |-> "Ok", err |-> "Ok", buffer |-> "file"]

\* The capsule files on the boot volume, and how the read and the checks go.
LoaderInputs ==
    [blob : {b \in CapsuleBlobs :
                /\ b.offset_sig = CAPSULE_HEADER_SIZE /\ b.len_sig = 4
                /\ b.offset_payload = CAPSULE_HEADER_SIZE + 4},
     short_read : BOOLEAN,
     verification : {"StaticVerified", "ZkVerified", "Failed"},
     entry_inside : BOOLEAN]

LoadKernelCapsule ==
    \E f \in LoaderInputs :
        LET r == load_kernel_capsule(f) IN
        /\ parse_ret' = [op |-> "load_kernel_capsule", input |-> f, kind |-> r.kind,
                         out |-> [err |-> r.err, buffer |-> r.buffer]]
        /\ UNCHANGED exceptParse

ParseNext ==
    FromBlob \/ ParseCapsuleMetadata \/ ExtractSignatureAndPayload \/ DeclaredCapabilities
        \/ RoundTrip \/ ValidateLayout \/ ValidateMeta \/ VerifyCapsule
        \/ LoadKernelCapsule

(***************************************************************************)
(* syscall/mod.rs, syscall/capabilities.rs, runtime/isolation.rs : the     *)
(* syscall dispatcher, the current token and the security perimeter        *)
(***************************************************************************)
\* syscall::capabilities::Capability
SyscallCapability ==
    {"CoreExec", "IO", "SecureMem", "Crypto", "IPC", "Filesystem", "Net", "ModLoader"}

\* Syscall::from_raw : the syscall of a number, None for every other number.
Syscall_from_raw(val) ==
    CASE val = 1 -> Some("Log")
      [] val = 2 -> Some("GetTime")
      [] val = 3 -> Some("SecureWrite")
      [] val = 4 -> Some("ModSpawn")
      [] val = 5 -> Some("ReadEntropy")
      [] val = 6 -> Some("IPCSend")
      [] val = 7 -> Some("IPCReceive")
      [] OTHER -> None

\* The capability handle_syscall passes to enforce for a syscall.
required_capability(sc) ==
    CASE sc = "Log" -> "IO"
      [] sc = "GetTime" -> "CoreExec"
      [] sc = "SecureWrite" -> "SecureMem"
      [] sc = "ModSpawn" -> "CoreExec"
      [] sc = "ReadEntropy" -> "Crypto"
      [] sc = "IPCSend" -> "IPC"
      [] sc = "IPCReceive" -> "IPC"

\* What the body of a syscall returns (a u64, written out).
syscall_body(sc) ==
    CASE sc = "Log" -> "0"
      [] sc = "GetTime" -> "1689357890"
      [] sc = "SecureWrite" -> "1"
      [] sc = "ModSpawn" -> "42"
      [] sc = "ReadEntropy" -> "0xA5A5A5A5"
      [] sc = "IPCSend" -> "0"
      [] sc = "IPCReceive" -> "0"

\* A capability check that lets a call through when no token is installed.
verify_capability_open(current, required) ==
    IF IsSome(current) THEN required \in Unwrap(current).permissions ELSE TRUE

\* verify_capability : the current token has the capability; false without a
\* current token.
verify_capability(current, required) ==
    IF IsSome(current) THEN required \in Unwrap(current).permissions ELSE FALSE

\* deny : u64::MAX, and no body has run.
deny(reason) == [ret |-> "u64::MAX", body |-> None, reason |-> reason]

\* enforce(required, op) : the body runs only behind the capability check.
enforce(current, required, sc) ==
    IF verify_capability(current, required)
    THEN [ret |-> syscall_body(sc), body |-> Some(sc), reason |-> "Ok"]
    ELSE deny("Capability check failed")

\* handle_syscall(syscall_id, arg0, arg1) under the current token.
handle_syscall(current, syscall_id) ==
    LET sc == Syscall_from_raw(syscall_id) IN
    IF IsSome(sc) THEN enforce(current, required_capability(Unwrap(sc)), Unwrap(sc))
    ELSE deny("Unknown syscall")

\* SecurityPerimeter::from_capabilities : the allowed syscall numbers.
from_capabilities(token) ==
    [allowed_syscalls |->
        UNION { CASE cap = "CoreExec" -> {2, 4}
                  [] cap = "IO" -> {1}
                  [] cap = "Crypto" -> {5}
                  [] cap = "IPC" -> {6, 7}
                  [] OTHER -> {} : cap \in token.permissions },
     memory_bounds |-> <<0, 0>>]

\* SecurityPerimeter::can_syscall
can_syscall(perimeter, syscall_id) == syscall_id \in perimeter.allowed_syscalls

\* The modules that run interleaved, the permissions their tokens are issued
\* with, and the syscall numbers they use (0 and 8 are no syscalls).
SyscallModules == {"a", "b"}
TokenPermissions == {{"IO"}, {"CoreExec", "IPC"}, {"SecureMem"}, {"Crypto", "IO"}}
SyscallIds == 0..8

CapabilityToken(owner, perms) ==
    [owner_module |-> owner, permissions |-> perms, issued_at |-> 0,
     scope_lifetime_ticks |-> 0]

SysInit ==
    /\ CURRENT_TOKEN = None
    /\ module_token = [m \in SyscallModules |-> None]
    /\ sys_ret = [op |-> "boot"]

\* A module starts: set_current_token(token) with the token issued to it.
SetCurrentToken ==
    \E m \in SyscallModules, perms \in TokenPermissions :
        /\ module_token[m] = None
        /\ CURRENT_TOKEN' = Some(CapabilityToken(m, perms))
        /\ module_token' = [module_token EXCEPT ![m] = Some(CapabilityToken(m, perms))]
        /\ sys_ret' = [op |-> "set_current_token"]
        /\ UNCHANGED exceptSys

\* A module shuts down: clear_token().
ClearToken ==
    \E m \in SyscallModules :
        /\ module_token[m] # None
        /\ CURRENT_TOKEN' = None
        /\ module_token' = [module_token EXCEPT ![m] = None]
        /\ sys_ret' = [op |-> "clear_token"]
        /\ UNCHANGED exceptSys

\* A module issues a syscall.
HandleSyscall ==
    \E m \in SyscallModules, syscall_id \in SyscallIds :
        LET r == handle_syscall(CURRENT_TOKEN, syscall_id) IN
        /\ sys_ret' = [op |-> "handle_syscall", caller |-> m, syscall_id |-> syscall_id,
                       current |-> CURRENT_TOKEN, own |-> module_token[m],
                       ret |-> r.ret, body |-> r.body]
        /\ UNCHANGED <<CURRENT_TOKEN, module_token, exceptSys>>

SysNext == SetCurrentToken \/ ClearToken \/ HandleSyscall

(***************************************************************************)
(* kernel/src/ui/event.rs : Ring<N>, push_isr from several contexts, pop   *)
(* from the one consumer                                                   *)
(***************************************************************************)
\* Capacity of the modelled lane and number of publish calls in a run.
RingN == 2
MaxPublished == 3

\* Contexts that publish: publish_pri is a plain function, any interrupt
\* handler or task may be inside push_isr at the same time.
Producers == {"isr1", "isr2"}

\* usize::wrapping_sub; a negative difference wraps to a huge value.
wrapping_sub(a, b) == IF a >= b THEN a - b ELSE USIZE_MAX - (b - a) + 1

\* Slot of index i in the buffer (sequences start at 1).
slot(i) == (i % RingN) + 1

ProducerIdle == [at |-> "idle", e |-> 0, t |-> 0, h |-> 0]
ConsumerIdle == [at |-> "idle", e |-> 0, t |-> 0, h |-> 0]

\* Ring::new: every slot holds the placeholder Event::Log{lvl:0, code:0}.
RingInit ==
    /\ QN = [buf |-> [i \in 1..RingN |-> 0], head |-> 0, tail |-> 0, drops |-> 0]
    /\ producers = [p \in Producers |-> ProducerIdle]
    /\ consumer = ConsumerIdle
    /\ events = [published |-> 0, accepted |-> {}, dropped |-> {}, popped |-> <<>>]

\* push_isr line 45: let t = self.tail.load(Relaxed).  The event published
\* is numbered so that it can be told apart from the others.
PushLoadTail(p) ==
    /\ producers[p].at = "idle"
    /\ events.published < MaxPublished
    /\ producers' = [producers EXCEPT ![p] =
                        [at |-> "load_head", e |-> events.published + 1,
                         t |-> QN.tail, h |-> 0]]
    /\ events' = [events EXCEPT !.published = @ + 1]
    /\ UNCHANGED <<QN, consumer>>
    /\ UNCHANGED exceptRing

\* push_isr lines 46-50: load head; a full ring counts a drop and returns.
PushLoadHead(p) ==
    /\ producers[p].at = "load_head"
    /\ IF wrapping_sub(producers[p].t, QN.head) >= RingN
       THEN /\ QN' = [QN EXCEPT !.drops = @ + 1]
            /\ events' = [events EXCEPT !.dropped = @ \cup {producers[p].e}]
            /\ producers' = [producers EXCEPT ![p] = ProducerIdle]
       ELSE /\ producers' = [producers EXCEPT ![p].at = "write", ![p].h = QN.head]
            /\ UNCHANGED <<QN, events>>
    /\ UNCHANGED consumer
    /\ UNCHANGED exceptRing

\* push_isr line 51: buf[t % N] = e, an unsynchronised store.
PushWrite(p) ==
    /\ producers[p].at = "write"
    /\ QN' = [QN EXCEPT !.buf[slot(producers[p].t)] = producers[p].e]
    /\ producers' = [producers EXCEPT ![p].at = "store_tail"]
    /\ UNCHANGED <<consumer, events>>
    /\ UNCHANGED exceptRing

\* push_isr line 52: self.tail.store(t + 1, Release); the push returns.
PushStoreTail(p) ==
    /\ producers[p].at = "store_tail"
    /\ QN' = [QN EXCEPT !.tail = producers[p].t + 1]
    /\ events' = [events EXCEPT !.accepted = @ \cup {producers[p].e}]
    /\ producers' = [producers EXCEPT ![p] = ProducerIdle]
    /\ UNCHANGED consumer
    /\ UNCHANGED exceptRing

\* pop line 56: let h = self.head.load(Relaxed).
PopLoadHead ==
    /\ consumer.at = "idle"
    /\ Len(events.popped) <= MaxPublished
    /\ consumer' = [ConsumerIdle EXCEPT !.at = "load_tail", !.h = QN.head]
    /\ UNCHANGED <<QN, producers, events>>
    /\ UNCHANGED exceptRing

\* pop lines 57-58: load tail; h == t returns None.
PopLoadTail ==
    /\ consumer.at = "load_tail"
    /\ consumer' = IF consumer.h = QN.tail THEN ConsumerIdle
                   ELSE [consumer EXCEPT !.at = "read", !.t = QN.tail]
    /\ UNCHANGED <<QN, producers, events>>
    /\ UNCHANGED exceptRing

\* pop line 59: let e = buf[h % N].
PopRead ==
    /\ consumer.at = "read"
    /\ consumer' = [consumer EXCEPT !.at = "store_head", !.e = QN.buf[slot(consumer.h)]]
    /\ UNCHANGED <<QN, producers, events>>
    /\ UNCHANGED exceptRing

\* pop lines 60-61: self.head.store(h + 1, Release); Some(e).
PopStoreHead ==
    /\ consumer.at = "store_head"
    /\ QN' = [QN EXCEPT !.head = consumer.h + 1]
    /\ events' = [events EXCEPT !.popped = Append(@, consumer.e)]
    /\ consumer' = ConsumerIdle
    /\ UNCHANGED producers
    /\ UNCHANGED exceptRing

RingNext ==
    \/ \E p \in Producers :
        \/ PushLoadTail(p) \/ PushLoadHead(p) \/ PushWrite(p) \/ PushStoreTail(p)
    \/ PopLoadHead \/ PopLoadTail \/ PopRead \/ PopStoreHead

InitCap == CapInit /\ RtIdleInit /\ VmInit /\ MemInit /\ AdmInit /\ CpsInit /\ LoadInit /\ PagInit /\ ParseInit /\ CensusInit /\ SchedInit /\ LockInit /\ SysInit /\ RingInit

SpecCap == InitCap /\ [][CapNext]_vars

InitRuntime == RtInit /\ CapIdleInit /\ VmInit /\ MemInit /\ AdmInit /\ CpsInit /\ LoadInit /\ PagInit /\ ParseInit /\ CensusInit /\ SchedInit /\ LockInit /\ SysInit /\ RingInit

SpecRuntime == InitRuntime /\ [][RtNext]_vars

InitVm == VmInit /\ CapIdleInit /\ RtIdleInit /\ MemInit /\ AdmInit /\ CpsInit /\ LoadInit /\ PagInit /\ ParseInit /\ CensusInit /\ SchedInit /\ LockInit /\ SysInit /\ RingInit

SpecVm == InitVm /\ [][VmNext]_vars

InitMem == MemInit /\ CapIdleInit /\ RtIdleInit /\ VmInit /\ AdmInit /\ CpsInit /\ LoadInit /\ PagInit /\ ParseInit /\ CensusInit /\ SchedInit /\ LockInit /\ SysInit /\ RingInit

SpecMem == InitMem /\ [][MemNext]_vars

InitAdmit == AdmInit /\ CapIdleInit /\ RtIdleInit /\ VmInit /\ MemInit /\ CpsInit /\ LoadInit /\ PagInit /\ ParseInit /\ CensusInit /\ SchedInit /\ LockInit /\ SysInit /\ RingInit

SpecAdmit == InitAdmit /\ [][AdmNext]_vars

Init == CpsInit /\ CapIdleInit /\ RtIdleInit /\ VmInit /\ MemInit /\ AdmInit /\ LoadInit /\ PagInit /\ ParseInit /\ CensusInit /\ SchedInit /\ LockInit /\ SysInit /\ RingInit

Spec == Init /\ [][CpsNext]_vars

InitLoad == LoadInit /\ CapIdleInit /\ RtIdleInit /\ VmInit /\ MemInit /\ AdmInit /\ CpsInit /\ PagInit /\ ParseInit /\ CensusInit /\ SchedInit /\ LockInit /\ SysInit /\ RingInit

SpecLoad == InitLoad /\ [][LoadNext]_vars

InitQuery == CpsInit /\ CapIdleInit /\ RtIdleInit /\ VmInit /\ MemInit /\ AdmInit /\ LoadInit /\ PagInit /\ ParseInit /\ CensusInit /\ SchedInit /\ LockInit /\ SysInit /\ RingInit

SpecQuery == InitQuery /\ [][QueryNext]_vars

InitPaging == PagInit /\ CapIdleInit /\ RtIdleInit /\ VmInit /\ MemInit /\ AdmInit /\ CpsInit /\ LoadInit /\ ParseInit /\ CensusInit /\ SchedInit /\ LockInit /\ SysInit /\ RingInit

SpecPaging == InitPaging /\ [][PagNext]_vars

InitParse == ParseInit /\ CapIdleInit /\ RtIdleInit /\ VmInit /\ MemInit /\ AdmInit /\ CpsInit /\ LoadInit /\ PagInit /\ CensusInit /\ SchedInit /\ LockInit /\ SysInit /\ RingInit

SpecParse == InitParse /\ [][ParseNext]_vars

InitCensus == CensusInit /\ CapIdleInit /\ RtIdleInit /\ VmInit /\ MemInit /\ AdmInit /\ CpsInit /\ LoadInit /\ PagInit /\ ParseInit /\ SchedInit /\ LockInit /\ SysInit /\ RingInit

\* The timer keeps firing.
SpecCensus == InitCensus /\ [][CensusNext]_vars /\ WF_vars(UpdateTicks)

InitSched == SchedInit /\ CapIdleInit /\ RtIdleInit /\ VmInit /\ MemInit /\ AdmInit /\ CpsInit /\ LoadInit /\ PagInit /\ ParseInit /\ CensusInit /\ LockInit /\ SysInit /\ RingInit

SpecSched == InitSched /\ [][SchedNext]_vars

InitLock == LockInit /\ CapIdleInit /\ RtIdleInit /\ VmInit /\ MemInit /\ AdmInit /\ CpsInit /\ LoadInit /\ PagInit /\ ParseInit /\ CensusInit /\ SchedInit /\ SysInit /\ RingInit

SpecLock == InitLock /\ [][LockNext]_vars

InitSyscall == SysInit /\ CapIdleInit /\ RtIdleInit /\ VmInit /\ MemInit /\ AdmInit /\ CpsInit /\ LoadInit /\ PagInit /\ ParseInit /\ CensusInit /\ SchedInit /\ LockInit /\ RingInit

SpecSyscall == InitSyscall /\ [][SysNext]_vars

InitRing == RingInit /\ CapIdleInit /\ RtIdleInit /\ VmInit /\ MemInit /\ AdmInit /\ CpsInit /\ LoadInit /\ PagInit /\ ParseInit /\ CensusInit /\ SchedInit /\ LockInit /\ SysInit

SpecRing == InitRing /\ [][RingNext]_vars

\* C4: the token returned by restrict has exactly the permissions of the parent
\* that the allow-list names, hence never more than the parent, also when the
\* allow-list names capabilities the parent does not hold.
C4_RestrictIsIntersection ==
    IsSome(child) =>
        /\ permissions(Unwrap(child)) = permissions(parent) \cap Range(allowed)
        /\ permissions(Unwrap(child)) \subseteq permissions(parent)

\* A restriction whose allow-list names a capability the parent lacks and that
\* still keeps one of the parent's capabilities.
C4_Witness ==
    /\ IsSome(child)
    /\ ~(Range(allowed) \subseteq permissions(parent))
    /\ permissions(Unwrap(child)) # {}
    /\ permissions(Unwrap(child)) # permissions(parent)

DesignStep(a, b) ==
    \/ a = "Inactive" /\ b = "Active"
    \/ a = "Active" /\ b = "Suspended"
    \/ a = "Suspended" /\ b = "Active"
    \/ a = "Active" /\ b = "Faulted"
    \/ a = "Faulted" /\ b \in {"Restarting", "Terminating"}
    \/ b = "Terminating"
    \/ b = "Inactive"

\* C2: every state change of the capsule made by one method call is a listed
\* transition; a fault() call makes two of them in a row, into Faulted and, by
\* the policy resolution, out of it.
C2_OnlyDesignTransitions ==
    [][\/ rc'.state = rc.state
       \/ DesignStep(rc.state, rc'.state)
       \/ /\ rc_op' = "fault"
          /\ DesignStep(rc.state, "Faulted")
          /\ DesignStep("Faulted", rc'.state)]_vars

\* C3: the address ranges of any two live regions (here: of two different
\* modules) are disjoint.
C3_LiveRegionsDisjoint ==
    \A i, j \in DOMAIN VM_REGIONS :
        (/\ i # j
         /\ IsSome(VM_REGIONS[i]) /\ Unwrap(VM_REGIONS[i]).active
         /\ IsSome(VM_REGIONS[j]) /\ Unwrap(VM_REGIONS[j]).active
         /\ Unwrap(VM_REGIONS[i]).name # Unwrap(VM_REGIONS[j]).name)
            => ~RangesOverlap(Unwrap(VM_REGIONS[i]).virt_range, Unwrap(VM_REGIONS[j]).virt_range)

\* C5: a frame enters the physical pool only with all its bytes zero: a region
\* is zeroized before its pages are returned.
C5_ZeroizedBeforeFreed ==
    [][\A f \in Frames :
          (f \notin mem.free /\ f \in mem'.free) => IsZero(mem.data[f])]_vars

(***************************************************************************)
(* C6: once shutdown() has been called on a SandboxContext, every          *)
(* syscall-scope check and every memory-access check made for that capsule *)
(* is a denial, for every capability and every address.                    *)
(***************************************************************************)
C6_ShutdownFencesChecks ==
    \A i \in shut_down :
        /\ \A cap \in Capability :
              validate_syscall_scope(contexts[i].token, cap) # "Allowed"
        /\ \A f \in Frames :
              check_memory_access(mem, contexts[i].token, f * PAGE_SIZE) # "Allowed"

(***************************************************************************)
(* C7: a manifest that requires both CoreExec and Net is rejected as a     *)
(* forbidden combination: no token is issued for it, so none is queued and *)
(* no instance is registered with one.                                     *)
(***************************************************************************)
ForbiddenCombination(caps) == {"CoreExec", "Network"} \subseteq Range(caps)

\* C7: no queued token and no registered instance's token holds the forbidden
\* combination of CoreExec and Net.
C7_ForbiddenCombinationRejected ==
    /\ \A i \in DOMAIN MODULE_LOADER.queue :
          ~ForbiddenCombination(MODULE_LOADER.queue[i].token.permissions)
    /\ \A n \in DOMAIN INSTANCES :
          ~ForbiddenCombination(INSTANCES[n].token.permissions)

(***************************************************************************)
(* C8: a manifest that asks for more memory than the 64 MiB policy maximum *)
(* is rejected, and allocate_region is never called for it: it is not      *)
(* queued as verified and the allocator is never asked for its size.       *)
(***************************************************************************)
C8_OversizeNeverReachesAllocator ==
    /\ \A size \in alloc_log : size <= MEMORY_POLICY_MAX
    /\ \A i \in DOMAIN MODULE_LOADER.queue :
          MODULE_LOADER.queue[i].manifest.memory_required <= MEMORY_POLICY_MAX

(***************************************************************************)
(* C9: when a launch succeeds, the uid it was made under is in the         *)
(* registry and the registry describes the capsule as Active.              *)
(***************************************************************************)
C9_LaunchedCapsuleIsActive ==
    (cps_ret.op = "launch_module" /\ cps_ret.kind = "Success") =>
        /\ cps_ret.uid \in DOMAIN REGISTRY
        /\ REGISTRY[cps_ret.uid].state = "Active"

\* A launch of the manifest signed by the root key, with 4096 bytes and {IO},
\* has succeeded.
C9_Witness ==
    /\ cps_ret.op = "launch_module"
    /\ cps_ret.kind = "Success"
    /\ cps_ret.uid \in DOMAIN REGISTRY
    /\ REGISTRY[cps_ret.uid].manifest = GoodManifest
    /\ GoodManifest.memory_required = 4096
    /\ Range(GoodManifest.required_caps) = {"IO"}
    /\ vault_verify_signature(GoodManifest.hash, Unwrap(GoodManifest.signature))

(***************************************************************************)
(* C10: a capsule whose policy suspends it on a fault (the sources' name   *)
(* for the policy is Suspend) is no longer active after a fault; its       *)
(* memory region stays mapped and allocated, and a registry entry goes     *)
(* away only by unregister_module, so describing it keeps succeeding.      *)
(***************************************************************************)
FaultSuspends ==
    (cps_ret.op = "enforce_fault" /\ contexts[cps_ret.ctx].runtime.policy = "Suspend") =>
        /\ contexts[cps_ret.ctx].runtime.state = "Suspended"
        /\ ~is_active(contexts[cps_ret.ctx].runtime)

SuspendedKeepsMemory ==
    \A i \in DOMAIN contexts :
        contexts[i].runtime.state = "Suspended" =>
            /\ RegionMapped(mem, contexts[i].memory)
            /\ RegionFrames(mem, contexts[i].memory) \cap mem.free = {}
            /\ Cardinality(RegionFrames(mem, contexts[i].memory))
                  = PagesFor(contexts[i].memory.size)

RemovedOnlyByUnregister ==
    \A u \in DOMAIN REGISTRY :
        u \notin DOMAIN REGISTRY' =>
            (cps_ret'.op = "unregister_module" /\ cps_ret'.uid = u)

\* C10: after a fault under the suspending policy the capsule is not active,
\* a suspended capsule keeps its memory, and only unregister_module removes a
\* registry entry.
C10_SuspendedCapsuleStaysRegistered ==
    /\ [](FaultSuspends /\ SuspendedKeepsMemory)
    /\ [][RemovedOnlyByUnregister]_vars

\* A registered capsule under the Suspend policy has just faulted.
C10_Witness ==
    /\ cps_ret.op = "enforce_fault"
    /\ contexts[cps_ret.ctx].runtime.policy = "Suspend"
    /\ contexts[cps_ret.ctx].runtime.state = "Suspended"
    /\ \E u \in DOMAIN REGISTRY : REGISTRY[u].exec_id = contexts[cps_ret.ctx].exec_id

C12_FailedSubmissionLeavesNoTrace ==
    [][(adm_ret'.op = "launch_module" /\ ~adm_ret'.ok) =>
           /\ mem' = mem
           /\ INSTANCES' = INSTANCES
           /\ MODULE_LOADER'.queue = MODULE_LOADER.queue]_vars

(***************************************************************************)
(* C13: the registry never holds more entries than its fixed capacity,     *)
(* whatever registrations and unregistrations have been made.              *)
(***************************************************************************)
C13_RegistryWithinCapacity == Cardinality(DOMAIN REGISTRY) <= MAX_MODULES

\* An unregister_module step: a registered uid loses exactly its entry and the
\* call reports success; an absent uid is reported and nothing changes.
UnregisterRemovesExactlyOne ==
    cps_ret'.op = "unregister_module" =>
        LET uid == cps_ret'.uid IN
        IF uid \in DOMAIN REGISTRY
        THEN /\ cps_ret'.removed
             /\ DOMAIN REGISTRY' = (DOMAIN REGISTRY) \ {uid}
             /\ \A u \in DOMAIN REGISTRY' : REGISTRY'[u] = REGISTRY[u]
        ELSE /\ ~cps_ret'.removed
             /\ REGISTRY' = REGISTRY

\* Right after an unregister_module the uid is absent, so that unregistering it
\* again finds nothing.
UnregisteredIsAbsent ==
    cps_ret.op = "unregister_module" => cps_ret.uid \notin DOMAIN REGISTRY

\* C14: unregister(uid) removes exactly the entry of a registered uid and
\* reports success; for an absent uid it reports that nothing was found and
\* leaves the registry unchanged, so a second unregister changes nothing.
C14_UnregisterExactAndIdempotent ==
    /\ []UnregisteredIsAbsent
    /\ [][UnregisterRemovesExactlyOne]_vars

\* One of two registered capsules has just been unregistered: the other entry
\* is still there.
C14_Witness ==
    /\ cps_ret.op = "unregister_module"
    /\ cps_ret.removed
    /\ Cardinality(DOMAIN REGISTRY) = 1

\* What a held value shows when the caller reads it: a clone shows what it was
\* made from, a borrow shows the entry as it is now.
Seen(h) ==
    IF ~h.live THEN Some(h.meta)
    ELSE IF h.meta.uid \in DOMAIN REGISTRY THEN Some(REGISTRY[h.meta.uid]) ELSE None

IsQuery(ret) == ret.op \in {"list_capsules", "find_by_name", "find_by_exec_id"}

\* A query changes neither the registry nor a capsule nor memory, and hands
\* out exactly the matching entries as they are at the call.
QueryReadsOnly ==
    IsQuery(cps_ret') =>
        /\ REGISTRY' = REGISTRY /\ contexts' = contexts /\ mem' = mem
        /\ \A h \in held' : h.meta.uid \in DOMAIN REGISTRY /\ Seen(h)' = Some(REGISTRY[h.meta.uid])
        /\ cps_ret'.op = "list_capsules" =>
               {h.meta.uid : h \in held'} = DOMAIN REGISTRY

\* Any other operation leaves every held value showing what it showed.
HeldValuesKeep ==
    ~IsQuery(cps_ret') => \A h \in held : h \in held' /\ Seen(h)' = Seen(h)

DebugScoped(token) == "Debug" \in Range(token.permissions)

(***************************************************************************)
(* C16: the registry's queries hand capsule data only to a caller that     *)
(* holds a debug-scoped capability; any other caller learns nothing.       *)
(***************************************************************************)
C16_IntrospectionNeedsDebugCapability ==
    (IsQuery(cps_ret) /\ ~DebugScoped(cps_ret.caller)) => held = {}

(***************************************************************************)
(* C17: after any sequence of paging init, map, protect and allocation     *)
(* operations no mapped page is both writable and executable, and the      *)
(* pages of an allocated region are writable and not executable.           *)
(***************************************************************************)
C17_NoPageWritableAndExecutable ==
    \A p \in PtPages :
        IsSome(PAGE_TABLE[p]) =>
            ~("WRITABLE" \in Unwrap(PAGE_TABLE[p]) /\ "NO_EXECUTE" \notin Unwrap(PAGE_TABLE[p]))

(***************************************************************************)
(* C18: every physical page that backs a region goes back to the physical  *)
(* pool exactly once: no frame is released while it is free already,       *)
(* neither within one free_region call nor through a handle used again.    *)
(***************************************************************************)
C18_EachFrameReleasedOnce == mem.double_freed = {}

(***************************************************************************)
(* C19: a region's recorded size covers its backing pages entirely, so     *)
(* that after zeroize every byte of every page that backs the region is    *)
(* zero.                                                                   *)
(***************************************************************************)
C19_ZeroizeCoversBackingPages ==
    [][\A r \in regions :
          (mem_ret' = "zeroize" /\ mem' = zeroize(mem, r)) =>
              \A f \in RegionFrames(mem, r) : IsZero(mem'.data[f])]_vars

\* The header a parser's sections must lie behind.
HeaderOf(op) == IF op = "from_blob" THEN CAPSULE_HEADER_SIZE ELSE CAPSULE_META_SIZE

\* A declared section that runs past the end of the blob or begins inside the
\* fixed header, or a capability count beyond the array.
DeclaresBadSection(ret) ==
    CASE ret.op = "from_blob" ->
           \/ ret.input.offset_sig + ret.input.len_sig > ret.input.blob_len
           \/ ret.input.offset_payload + ret.input.len_payload > ret.input.blob_len
           \/ ret.input.offset_sig < HeaderOf(ret.op)
           \/ ret.input.offset_payload < HeaderOf(ret.op)
      [] ret.op = "extract_signature_and_payload" ->
           \/ ret.input.sig_offset + ret.input.sig_len > ret.input.blob_len
           \/ ret.input.sig_offset < HeaderOf(ret.op)
      [] ret.op = "declared_capabilities" -> ret.input.num_caps > ret.input.caps_backing
      [] OTHER -> FALSE

(***************************************************************************)
(* C20: a blob whose declared section runs past the end of the blob or     *)
(* begins inside the fixed header is rejected with an error by every       *)
(* parser; nothing is read from it.                                        *)
(***************************************************************************)
C20_BadSectionRejectedWithError ==
    DeclaresBadSection(parse_ret) => parse_ret.kind = "Err"

(***************************************************************************)
(* C21: for every blob shorter than the fixed header, from_blob and        *)
(* parse_capsule_metadata return an error, read no header field and do     *)
(* not crash.                                                              *)
(***************************************************************************)
C21_ShortBlobIsStructuralError ==
    (/\ parse_ret.op \in {"from_blob", "parse_capsule_metadata"}
     /\ parse_ret.input.blob_len < HeaderOf(parse_ret.op)) =>
        /\ parse_ret.kind = "Err"
        /\ ~parse_ret.out.header_read
        /\ parse_ret.out.err \in {"blob too small for header", "Capsule header too short"}

\* from_blob has been given a blob one byte short of a header, with what would
\* be a valid magic.
C21_Witness ==
    /\ parse_ret.op = "from_blob"
    /\ parse_ret.input.blob_len = CAPSULE_HEADER_SIZE - 1
    /\ parse_ret.input.basic_valid
    /\ parse_ret.kind = "Err"

(***************************************************************************)
(* C22: a record that satisfies the field and size invariants, written out *)
(* and parsed, parses successfully and comes back equal in every           *)
(* structural field.                                                       *)
(***************************************************************************)
C22_ParseOfSerializeIsIdentity ==
    parse_ret.op = "round_trip" =>
        /\ parse_ret.kind = "Ok"
        /\ parse_ret.out.meta = Some(parse_ret.input)

(***************************************************************************)
(* C23: validate_layout returns Ok exactly when both lengths are non-zero, *)
(* both spans end at or before blob_len without overflow, and the          *)
(* signature and payload spans are disjoint or identical.                  *)
(***************************************************************************)
SpansWellFormed(i) ==
    /\ i.len_sig # 0 /\ i.len_payload # 0
    /\ i.offset_sig <= USIZE_MAX - i.len_sig
    /\ i.offset_payload <= USIZE_MAX - i.len_payload
    /\ i.offset_sig + i.len_sig <= i.blob_len
    /\ i.offset_payload + i.len_payload <= i.blob_len
    /\ \/ i.offset_sig + i.len_sig <= i.offset_payload
       \/ i.offset_payload + i.len_payload <= i.offset_sig
       \/ i.offset_sig = i.offset_payload /\ i.len_sig = i.len_payload

C23_LayoutOkExactlyWhenSpansWellFormed ==
    parse_ret.op = "validate_layout" =>
        (parse_ret.kind = "Ok" <=> SpansWellFormed(parse_ret.input))

\* C23, as the code has it: Ok exactly when the spans are well formed and the
\* blob is long enough to hold a whole header.
C23_LayoutOkExactlyWhenSpansWellFormedAndHeaderFits ==
    parse_ret.op = "validate_layout" =>
        (parse_ret.kind = "Ok" <=>
            /\ SpansWellFormed(parse_ret.input)
            /\ parse_ret.input.blob_len >= CAPSULE_HEADER_SIZE)

\* Adjacent spans in a blob that holds a header are accepted.
C23_Witness ==
    /\ parse_ret.op = "validate_layout"
    /\ parse_ret.kind = "Ok"
    /\ parse_ret.input.offset_sig + parse_ret.input.len_sig
           = parse_ret.input.offset_payload

(***************************************************************************)
(* C24: validate_meta returns an error for every metadata whose signature  *)
(* span or payload span ends past the end of the blob.                     *)
(***************************************************************************)
C24_MetaSpanPastBlobIsError ==
    (/\ parse_ret.op = "validate_meta"
     /\ \/ parse_ret.input.offset_sig + parse_ret.input.len_sig
               > parse_ret.input.blob_len
        \/ parse_ret.input.offset_payload + parse_ret.input.len_payload
               > parse_ret.input.blob_len) =>
        parse_ret.kind = "Err"

(***************************************************************************)
(* C26: for a capsule whose fault policy is Escalate, fault() leaves the   *)
(* capsule in Terminating when it returns (having signalled the fault to   *)
(* the supervisor).                                                        *)
(***************************************************************************)
C26_EscalateLeavesTerminating ==
    (rc_op = "fault" /\ rc.policy = "Escalate") => rc.state = "Terminating"

(***************************************************************************)
(* C25: a running module whose heartbeat is not renewed before its         *)
(* watchdog deadline is moved to the watchdog-timeout fault by the next    *)
(* tick, and the fault policy is then applied to it: it does not stay      *)
(* timed out, it goes on to a restart, a halt or its termination.          *)
(***************************************************************************)
C25_WatchdogTimeoutIsResolved ==
    \A i \in 1..MAX_MODULES :
        (MODULES[i] # None /\ Unwrap(MODULES[i]).state = "WatchdogTimeout")
            ~> (MODULES[i] # None /\ Unwrap(MODULES[i]).state
                    \in {"Restarting", "Halted", "Terminated", "Running"})

(***************************************************************************)
(* C27: check_memory_access answers Allowed only for an address inside the *)
(* capsule's own region: an address in no region is Killed and an address  *)
(* in a region outside the capsule's scope is Denied.                      *)
(***************************************************************************)
C27_AllowedOnlyInOwnRegion ==
    \A i \in DOMAIN contexts :
        \A f \in Frames :
            LET d == check_memory_access(mem, contexts[i].token, f * PAGE_SIZE) IN
            /\ d = "Allowed" => f \in RegionFrames(mem, contexts[i].memory)
            /\ f \in mem.free => d = "Killed"

(***************************************************************************)
(* C28: in every launch the registry entry is inserted before the task is  *)
(* spawned: a task that a launch has put on the scheduler queue, where it  *)
(* can be polled and tick, belongs to a module that is registered.         *)
(***************************************************************************)
C28_RegisteredBeforeSpawned ==
    \A i \in DOMAIN SCHED_QUEUE :
        (launch_pc # None /\ Unwrap(launch_pc).name = SCHED_QUEUE[i].name
            /\ Unwrap(launch_pc).at = "register_module_instance")
                => is_registered(SCHED_INSTANCES, SCHED_QUEUE[i].name)

(***************************************************************************)
(* C29: a manifest that fails the structural validation (magic, format     *)
(* version, capability count) is rejected before any signature or proof    *)
(* verification: none is ever queued as verified, since an entry enters    *)
(* the queue only when the verifications have run on it and passed.        *)
(***************************************************************************)
C29_StructurallyInvalidNeverVerified ==
    \A i \in DOMAIN MODULE_LOADER.queue : is_valid(MODULE_LOADER.queue[i].manifest)

(***************************************************************************)
(* C30: while a lock on state shared between concurrent admissions is      *)
(* held, its holder performs no cryptographic verification and no module   *)
(* launch.                                                                 *)
(***************************************************************************)
C30_NoCryptoOrLaunchUnderLock ==
    \A p \in Admitters :
        loader_lock = Some(p) =>
            admitting[p].at \notin {"authenticate_manifest", "launch_module"}

(***************************************************************************)
(* C31: handle_syscall runs the body of a syscall only when the current    *)
(* token contains the capability the syscall requires; with no current     *)
(* token, a missing capability or an unknown number it returns u64::MAX    *)
(* and runs no body.                                                       *)
(***************************************************************************)
SyscallPermitted(current, syscall_id) ==
    /\ IsSome(current)
    /\ IsSome(Syscall_from_raw(syscall_id))
    /\ required_capability(Unwrap(Syscall_from_raw(syscall_id)))
           \in Unwrap(current).permissions

C31_BodyOnlyBehindCapability ==
    sys_ret.op = "handle_syscall" =>
        /\ IsSome(sys_ret.body) =>
              /\ SyscallPermitted(sys_ret.current, sys_ret.syscall_id)
              /\ sys_ret.body = Syscall_from_raw(sys_ret.syscall_id)
        /\ ~SyscallPermitted(sys_ret.current, sys_ret.syscall_id) =>
              /\ sys_ret.ret = "u64::MAX"
              /\ sys_ret.body = None

\* A known syscall issued while no token is installed has been denied.
C31_Witness ==
    /\ sys_ret.op = "handle_syscall"
    /\ sys_ret.current = None
    /\ sys_ret.syscall_id = 3
    /\ sys_ret.ret = "u64::MAX"

(***************************************************************************)
(* C36: a syscall issued by a module is authorised against that module's   *)
(* own token: its body runs exactly when the token issued to the caller    *)
(* holds the required capability, whatever token other modules have        *)
(* installed or cleared in between.                                        *)
(***************************************************************************)
C36_AuthorisedAgainstOwnToken ==
    sys_ret.op = "handle_syscall" =>
        (IsSome(sys_ret.body) <=> SyscallPermitted(sys_ret.own, sys_ret.syscall_id))

(***************************************************************************)
(* C37: for every token and every syscall number, the perimeter built from *)
(* the token allows the syscall exactly when handle_syscall passes the     *)
(* capability check for it under that token.                               *)
(***************************************************************************)
C37_PerimeterAgreesWithDispatcher ==
    IsSome(CURRENT_TOKEN) =>
        \A syscall_id \in SyscallIds :
            can_syscall(from_capabilities(Unwrap(CURRENT_TOKEN)), syscall_id)
                <=> IsSome(handle_syscall(CURRENT_TOKEN, syscall_id).body)

(***************************************************************************)
(* C32: the verified-module queue never holds more than MAX_VERIFIED_QUEUE *)
(* entries, whatever verify_and_queue and admit_next_module calls are      *)
(* made, and a verify_and_queue call that finds the queue full returns an  *)
(* error and leaves the queue and rejected_count as they were.             *)
(***************************************************************************)
C32_QueueBoundedAndFullIsRefused ==
    /\ [](Len(loader_state.queue) <= MAX_VERIFIED_QUEUE)
    /\ [][\A p \in Admitters :
            (/\ admitting[p].op = "verify_and_queue"
             /\ admitting[p].at = "lock" /\ admitting'[p].at # "lock"
             /\ Len(loader_state.queue) >= MAX_VERIFIED_QUEUE) =>
                /\ admitting'[p].at = "return"
                /\ admitting'[p].ret = "Queue full"
                /\ loader_state' = loader_state]_vars
    /\ [][\A p \in Admitters :
            (admitting[p].at = "return" /\ admitting'[p].at # "return") =>
                loader_state' = loader_state]_vars

\* A verify_and_queue call is about to return "Queue full" from a full queue.
C32_Witness ==
    \E p \in Admitters :
        /\ admitting[p].op = "verify_and_queue"
        /\ admitting[p].at = "return"
        /\ admitting[p].ret = "Queue full"
        /\ Len(loader_state.queue) = MAX_VERIFIED_QUEUE

(***************************************************************************)
(* C33: for a capsule flagged ZK-required whose sections lie inside the    *)
(* blob and whose proof blob passes the proof integrity check,             *)
(* verify_capsule returns ZkVerified.                                      *)
(***************************************************************************)
C33_ZkCapsuleWithValidProofIsVerified ==
    (/\ parse_ret.op = "verify_capsule"
     /\ requires_zk(parse_ret.input)
     /\ slices_for(parse_ret.input.blob_len, parse_ret.input) = "Ok"
     /\ is_mock_valid(parse_ret.input.sig)) =>
        parse_ret.kind = "ZkVerified"

(***************************************************************************)
(* C34: on every error return of load_kernel_capsule that happens after    *)
(* the capsule file has been read into the buffer (parse failure,          *)
(* verification failure, entry point outside the payload) the buffer has   *)
(* been zeroed.                                                            *)
(***************************************************************************)
C34_BufferZeroedOnErrorAfterRead ==
    (/\ parse_ret.op = "load_kernel_capsule"
     /\ parse_ret.kind = "Err"
     /\ parse_ret.input.blob.blob_len # 0
     /\ ~parse_ret.input.short_read) =>
        parse_ret.out.buffer = "zeroed"

\* Events between head and tail, and how often an event was handed out by pop.
RingPending ==
    {QN.buf[slot(i)] : i \in {j \in 0..MaxPublished : QN.head <= j /\ j < QN.tail}}

TimesPopped(e) ==
    Cardinality({i \in 1..Len(events.popped) : events.popped[i] = e})

(***************************************************************************)
(* C35: with several producers in push_isr at once and one consumer in     *)
(* pop, every event whose push returned without counting a drop is either  *)
(* still in the ring or was popped, exactly once, and the ring never holds *)
(* more than N events.                                                     *)
(***************************************************************************)
C35_AcceptedEventsPoppedExactlyOnce ==
    /\ \A e \in events.accepted :
          TimesPopped(e) + (IF e \in RingPending THEN 1 ELSE 0) = 1
    /\ wrapping_sub(QN.tail, QN.head) <= RingN

(***************************************************************************)
(* C38: a successful launch_module, which registers the new capsule under  *)
(* the admission's uid, adds one entry to the registry and leaves every    *)
(* entry that was there as it was: no earlier capsule's metadata is        *)
(* replaced.                                                               *)
(***************************************************************************)
C38_RegistrationAddsAnEntry ==
    [][Len(contexts') = Len(contexts) + 1 =>
          /\ Cardinality(DOMAIN REGISTRY') = Cardinality(DOMAIN REGISTRY) + 1
          /\ \A u \in DOMAIN REGISTRY : REGISTRY'[u] = REGISTRY[u]]_vars

(***************************************************************************)
(* C39: when allocate_region returns None, the physical frames that are    *)
(* free and the page mappings are what they were before the call: every    *)
(* frame and every mapping obtained during the call has been released.     *)
(***************************************************************************)
C39_FailedAllocationReleasesAll ==
    [][mem_ret' = "None" => (mem'.free = mem.free /\ mem'.pt = mem.pt)]_vars

\* The tracked capsules a registry entry stands for: the contexts of its exec_id,
\* when the exec_id names one context only.
CapsulesOf(u) ==
    LET same == {i \in DOMAIN contexts : contexts[i].exec_id = REGISTRY[u].exec_id}
    IN  IF Cardinality(same) = 1 THEN same ELSE {}

(***************************************************************************)
(* C40: for every registered uid the state stored in the registry entry is *)
(* the current state of the capsule it was registered for, whatever fault, *)
(* suspend, terminate or shutdown has been applied to the capsule since.   *)
(***************************************************************************)
C40_RegistryStateIsCapsuleState ==
    \A u \in DOMAIN REGISTRY : \A i \in CapsulesOf(u) :
        REGISTRY[u].state = contexts[i].runtime.state

====
